---- MODULE Spec2Model ----
(***************************************************************************)
(* Skin Care Tracker ver.8: the evaluation records hook                    *)
(* (useEvaluationData), the monthly aggregation (summarizeMonthly) and the *)
(* Dashboard's month filter, status counts and delete handler.             *)
(*                                                                         *)
(* Strings the code formats or compares (month keys, labels) are sequences *)
(* of one-character strings.  A point in time is a number of hours since   *)
(* Epoch (UTC); a JavaScript Date is [valid, time], the Invalid Date being *)
(* the one with valid = FALSE.                                             *)
(***************************************************************************)
EXTENDS Integers, Sequences, FiniteSets, TLC

VARIABLES
    store,          \* the remote 'evaluations' collection: a set of documents
    nextId,         \* how many document ids the store has handed out
    now,            \* what new Date() returns, in hours since Epoch
    tz,             \* the browser's offset from UTC, in hours
    subStatus,      \* per subscription: "active", "failed" or "unsubscribed"
    inflight,       \* per subscription: emissions produced and not yet delivered
    latestRecords,  \* useState: latestRecords
    allRecords,     \* useState: allRecords
    error,          \* useState: error ("" is null)
    latestLoading,  \* useState: latestLoading
    allLoading,     \* useState: allLoading
    monthlySummary, \* useMemo: summarizeMonthly(allRecords), as last rendered
    deletingId,     \* Dashboard useState: deletingId ("" is null)
    pendingDeletes, \* deleteDoc requests issued and not yet settled
    deleteDocCalls, \* the ids deleteDoc was ever called with
    alerts,         \* number of alert() dialogs shown by handleDelete
    mounted,        \* the component using the hook is mounted
    call,           \* the function-level harness: the call and its result
    toast,          \* AppShell useState: toast (NoToast is null)
    toastTimer,     \* AppShell useRef: toastTimer.current (0 is null)
    timers,         \* the setTimeout timers that are pending, by id
    showToastCalls, \* how often showToast was called, per message
    isSubmitting,   \* AppShell useState: isSubmitting
    form,           \* EvaluationForm's state
    pendingSaves,   \* addDoc requests issued and not yet settled
    addDocCalls,    \* how often saveEvaluation called addDoc
    selectedMonth,  \* Dashboard useState: selectedMonth
    localStorage,   \* window.localStorage: the items the app reads and writes
    gate            \* AppShell's authentication state and LoginGate's state

uiVars == <<selectedMonth, localStorage, gate>>

appVars == <<toast, toastTimer, timers, showToastCalls, isSubmitting, form,
             pendingSaves, addDocCalls, selectedMonth, localStorage, gate>>

vars == <<store, nextId, now, tz, subStatus, inflight, latestRecords, allRecords,
          error, latestLoading, allLoading, monthlySummary,
          deletingId, pendingDeletes, deleteDocCalls, alerts, mounted, call,
          toast, toastTimer, timers, showToastCalls, isSubmitting, form,
          pendingSaves, addDocCalls, selectedMonth, localStorage, gate>>

-----------------------------------------------------------------------------
(* Bounds of the model *)

MaxDocs == 2        \* documents ever created in the collection
MaxInflight == 1    \* emissions a subscription may have in flight
MaxLen == 2         \* length of the record sequences given to the pure functions
MaxCount == 10      \* largest value and total given to percentage
MaxSubmits == 2     \* submissions of the form that reach saveEvaluation

-----------------------------------------------------------------------------
(* The calendar: Date arithmetic in a window that starts at Epoch *)

Epoch == [year |-> 2024, month |-> 12]

IsLeap(y) == (y % 4 = 0 /\ y % 100 # 0) \/ y % 400 = 0

DaysInMonth(y, m) ==
    IF m = 2 THEN (IF IsLeap(y) THEN 29 ELSE 28)
    ELSE IF m \in {4, 6, 9, 11} THEN 30 ELSE 31

RECURSIVE CivilWalk(_, _, _)
CivilWalk(days, y, m) ==
    IF days < DaysInMonth(y, m)
    THEN [year |-> y, month |-> m, day |-> days + 1]
    ELSE CivilWalk(days - DaysInMonth(y, m),
                   IF m = 12 THEN y + 1 ELSE y,
                   IF m = 12 THEN 1 ELSE m + 1)

\* the calendar fields of an hour count (hours >= 0)
CivilFromHours(hours) ==
    LET c == CivilWalk(hours \div 24, Epoch.year, Epoch.month)
    IN  [year |-> c.year, month |-> c.month, day |-> c.day, hour |-> hours % 24]

RECURSIVE DaysBeforeMonth(_, _, _, _)
DaysBeforeMonth(y, m, cy, cm) ==
    IF cy = y /\ cm = m THEN 0
    ELSE DaysInMonth(cy, cm)
         + DaysBeforeMonth(y, m, IF cm = 12 THEN cy + 1 ELSE cy,
                                 IF cm = 12 THEN 1 ELSE cm + 1)

\* Date.UTC(y, m - 1, d, h), in hours since Epoch
UTC(y, m, d, h) == (DaysBeforeMonth(y, m, Epoch.year, Epoch.month) + (d - 1)) * 24 + h

-----------------------------------------------------------------------------
(* Strings *)

Digits == <<"0", "1", "2", "3", "4", "5", "6", "7", "8", "9">>

\* String(n) for n >= 0
RECURSIVE NumToStr(_)
NumToStr(n) ==
    IF n < 10 THEN <<Digits[n + 1]>>
    ELSE NumToStr(n \div 10) \o <<Digits[(n % 10) + 1]>>

\* String.prototype.padStart
RECURSIVE padStart(_, _, _)
padStart(s, len, ch) == IF Len(s) >= len THEN s ELSE padStart(<<ch>> \o s, len, ch)

NaNStr == <<"N", "a", "N">>

\* collation rank of a character: punctuation, then digits, then letters
CharRank(c) ==
    IF c = "-" THEN 0
    ELSE IF \E i \in 1..10 : Digits[i] = c
         THEN 1 + (CHOOSE i \in 1..10 : Digits[i] = c)
         ELSE IF c = "a" THEN 20 ELSE 21

\* String.prototype.localeCompare: -1, 0 or 1
RECURSIVE localeCompare(_, _)
localeCompare(a, b) ==
    IF a = <<>> /\ b = <<>> THEN 0
    ELSE IF a = <<>> THEN -1
    ELSE IF b = <<>> THEN 1
    ELSE IF CharRank(Head(a)) < CharRank(Head(b)) THEN -1
    ELSE IF CharRank(Head(a)) > CharRank(Head(b)) THEN 1
    ELSE localeCompare(Tail(a), Tail(b))

\* String.prototype.trim, on a sequence of characters
RECURSIVE trimStart(_)
trimStart(s) == IF s # <<>> /\ Head(s) = " " THEN trimStart(Tail(s)) ELSE s

RECURSIVE trimEnd(_)
trimEnd(s) ==
    IF s # <<>> /\ s[Len(s)] = " " THEN trimEnd(SubSeq(s, 1, Len(s) - 1)) ELSE s

trim(s) == trimEnd(trimStart(s))

-----------------------------------------------------------------------------
(* Dates and date strings *)

\* A date string: an ISO-8601 text (kind "iso", with its UTC fields), a text
\* that Date cannot parse (kind "text"), or the empty string (kind "empty").
IsoString(c) == [kind |-> "iso", year |-> c.year, month |-> c.month,
                 day |-> c.day, hour |-> c.hour]
GarbageString == [kind |-> "text", year |-> 0, month |-> 0, day |-> 0, hour |-> 0]
EmptyString == [kind |-> "empty", year |-> 0, month |-> 0, day |-> 0, hour |-> 0]

\* truthiness of a string
Truthy(s) == s.kind # "empty"

InvalidDate == [valid |-> FALSE, time |-> 0]
DateAt(t) == [valid |-> TRUE, time |-> t]

\* new Date(string)
NewDateFromString(s) ==
    IF s.kind = "iso" THEN DateAt(UTC(s.year, s.month, s.day, s.hour))
    ELSE InvalidDate

\* Date.prototype.toISOString of a valid date (it throws on the Invalid Date)
toISOString(date) == IsoString(CivilFromHours(date.time))

\* Date.prototype.getFullYear / getMonth of a valid date: local time
getFullYear(date, zone) == CivilFromHours(date.time + zone).year
getMonth(date, zone) == CivilFromHours(date.time + zone).month - 1

\* `${date.getFullYear()}-${String(date.getMonth() + 1).padStart(2, '0')}`
FormatMonthKey(date, zone) ==
    IF date.valid
    THEN NumToStr(getFullYear(date, zone)) \o <<"-">>
         \o padStart(NumToStr(getMonth(date, zone) + 1), 2, "0")
    ELSE NaNStr \o <<"-">> \o NaNStr

\* Intl.DateTimeFormat('ja-JP', {year:'numeric', month:'short'}).format of a
\* valid date (it throws a RangeError on the Invalid Date)
monthFormatter(date, zone) ==
    NumToStr(getFullYear(date, zone)) \o <<"Y">>
    \o NumToStr(getMonth(date, zone) + 1) \o <<"M">>

-----------------------------------------------------------------------------
(* Stored documents and mapDocToRecord *)

\* A field of a stored document that is missing or null
Undefined == "<undefined>"

\* The value of a date field of a stored document: missing/null ("absent"),
\* a Firestore Timestamp (it has toDate), or a string (it has no toDate)
AbsentField == [kind |-> "absent", time |-> 0, str |-> EmptyString]
TimestampField(t) == [kind |-> "timestamp", time |-> t, str |-> EmptyString]
StringField(s) == [kind |-> "string", time |-> 0, str |-> s]

\* The value of the assessor field of a stored document: missing, a value
\* that is no string (a number), or a string, as a sequence of characters
MissingValue == [type |-> "undefined", chars |-> <<>>]
NumberValue == [type |-> "number", chars |-> <<>>]
StringValue(s) == [type |-> "string", chars |-> s]

\* the label of a record without an assessor (three characters in the source)
UnsetLabel == <<"u", "n", "s", "e", "t">>

\* a stored document; its assessor is missing until a writer sets it
Document(id, bone, inc, assessmentDate, createdAt) ==
    [id |-> id, assessor |-> MissingValue,
     boneProtection |-> bone, incontinenceCare |-> inc,
     assessmentDate |-> assessmentDate, createdAt |-> createdAt]

EvaluationRecord(id, bone, inc, assessmentDate, createdAt) ==
    [id |-> id, assessor |-> UnsetLabel,
     boneProtection |-> bone, incontinenceCare |-> inc,
     assessmentDate |-> assessmentDate, createdAt |-> createdAt]

NoRecord == EvaluationRecord("", Undefined, Undefined, EmptyString, EmptyString)

\* value ?? fallback
Nullish(value, fallback) == IF value = Undefined THEN fallback ELSE value

\* data.assessmentDate?.toDate?.() ?? data.assessmentDate ?? data.createdAt?.toDate?.()
\* as a JavaScript value: a Date, a string or undefined
TimestampOf(data) ==
    IF data.assessmentDate.kind = "timestamp"
    THEN [type |-> "date", date |-> DateAt(data.assessmentDate.time), str |-> EmptyString]
    ELSE IF data.assessmentDate.kind = "string"
    THEN [type |-> "string", date |-> InvalidDate, str |-> data.assessmentDate.str]
    ELSE IF data.createdAt.kind = "timestamp"
    THEN [type |-> "date", date |-> DateAt(data.createdAt.time), str |-> EmptyString]
    ELSE [type |-> "undefined", date |-> InvalidDate, str |-> EmptyString]

\* timestamp instanceof Date ? timestamp : new Date(timestamp)
\* (new Date(undefined) is the Invalid Date)
AsDate(timestamp) ==
    IF timestamp.type = "date" THEN timestamp.date
    ELSE IF timestamp.type = "string" THEN NewDateFromString(timestamp.str)
    ELSE InvalidDate

\* data.createdAt?.toDate?.() ?? new Date()
CreatedAtOf(data, clock) ==
    IF data.createdAt.kind = "timestamp" THEN DateAt(data.createdAt.time)
    ELSE DateAt(clock)

\* typeof value === 'string' ? value.trim() : ''
normalizeString(value) == IF value.type = "string" THEN trim(value.chars) ELSE <<>>

\* a RawAssessorOrLabel that leaves the label out
RawAssessorOnly(rawAssessor) == rawAssessor

\* rawAssessor || the label: the empty string is falsy
RawAssessorOrLabel(rawAssessor) == IF rawAssessor = <<>> THEN UnsetLabel ELSE rawAssessor

\* mapDocToRecord: [threw, record]; toISOString throws a RangeError on the
\* Invalid Date, and then no record is returned
mapDocToRecord(doc, clock) ==
    LET date == AsDate(TimestampOf(doc))
    IN  IF ~date.valid
        THEN [threw |-> TRUE, record |-> NoRecord]
        ELSE [threw |-> FALSE,
              record |-> [EvaluationRecord(
                              doc.id,
                              Nullish(doc.boneProtection, "na"),
                              Nullish(doc.incontinenceCare, "na"),
                              toISOString(date),
                              toISOString(CreatedAtOf(doc, clock)))
                          EXCEPT !.assessor =
                              RawAssessorOrLabel(normalizeString(doc.assessor))]]

\* snapshot.docs.map(mapDocToRecord): [threw, records]
MapDocs(docs, clock) ==
    IF \E i \in 1..Len(docs) : mapDocToRecord(docs[i], clock).threw
    THEN [threw |-> TRUE, records |-> <<>>]
    ELSE [threw |-> FALSE,
          records |-> [i \in 1..Len(docs) |-> mapDocToRecord(docs[i], clock).record]]

-----------------------------------------------------------------------------
(* summarizeMonthly *)

\* Number(b)
Number(b) == IF b THEN 1 ELSE 0

\* the date summarizeMonthly groups a record by (lines 12-13)
SummaryDate(record, clock) ==
    LET sourceDate == IF Truthy(record.assessmentDate)
                      THEN record.assessmentDate ELSE record.createdAt
    IN  IF Truthy(sourceDate) THEN NewDateFromString(sourceDate) ELSE DateAt(clock)

\* index of monthKey in the summary map (a sequence in insertion order), or 0
IndexOfKey(summaryMap, monthKey) ==
    IF \E i \in 1..Len(summaryMap) : summaryMap[i].monthKey = monthKey
    THEN CHOOSE i \in 1..Len(summaryMap) : summaryMap[i].monthKey = monthKey
    ELSE 0

\* one pass of the forEach body (lines 17-32) for a record with a valid date
AddToSummary(summaryMap, record, date, zone) ==
    LET monthKey == FormatMonthKey(date, zone)
        label == monthFormatter(date, zone)
        withKey == IF IndexOfKey(summaryMap, monthKey) = 0
                   THEN Append(summaryMap, [monthKey |-> monthKey, label |-> label,
                                            total |-> 0, done |-> 0, notDone |-> 0, na |-> 0])
                   ELSE summaryMap
        k == IndexOfKey(withKey, monthKey)
        summary == withKey[k]
    IN  [withKey EXCEPT ![k] =
            [summary EXCEPT
                !.total = @ + 1,
                !.done = @ + Number(record.boneProtection = "done")
                           + Number(record.incontinenceCare = "done"),
                !.notDone = @ + Number(record.boneProtection = "not_done")
                              + Number(record.incontinenceCare = "not_done"),
                !.na = @ + Number(record.boneProtection = "na")
                         + Number(record.incontinenceCare = "na")]]

\* records.forEach(...): [threw, map]; monthFormatter.format throws on the
\* Invalid Date and the exception leaves summarizeMonthly
RECURSIVE SummarizeLoop(_, _, _, _, _)
SummarizeLoop(records, i, summaryMap, clock, zone) ==
    IF i > Len(records) THEN [threw |-> FALSE, map |-> summaryMap]
    ELSE LET date == SummaryDate(records[i], clock)
         IN  IF ~date.valid
             THEN [threw |-> TRUE, map |-> <<>>]
             ELSE SummarizeLoop(records, i + 1,
                                AddToSummary(summaryMap, records[i], date, zone),
                                clock, zone)

\* insertion of x into a list sorted by monthKey, after its equals (stable)
RECURSIVE InsertByMonthKey(_, _)
InsertByMonthKey(sorted, x) ==
    IF sorted = <<>> THEN <<x>>
    ELSE IF localeCompare(x.monthKey, Head(sorted).monthKey) < 0
         THEN <<x>> \o sorted
         ELSE <<Head(sorted)>> \o InsertByMonthKey(Tail(sorted), x)

RECURSIVE SortAscending(_)
SortAscending(list) ==
    IF list = <<>> THEN <<>>
    ELSE InsertByMonthKey(SortAscending(SubSeq(list, 1, Len(list) - 1)), list[Len(list)])

\* a plausible slip: the map's values returned in insertion order, unsorted
SortSummariesOmitted(list) == list

\* Array.from(summaryMap.values()).sort((a, b) => a.monthKey.localeCompare(b.monthKey))
SortSummaries(list) == SortAscending(list)

\* summarizeMonthly(records): [threw, out]
summarizeMonthly(records, clock, zone) ==
    LET r == SummarizeLoop(records, 1, <<>>, clock, zone)
    IN  IF r.threw THEN [threw |-> TRUE, out |-> <<>>]
        ELSE [threw |-> FALSE, out |-> SortSummaries(r.map)]

-----------------------------------------------------------------------------
(* Dashboard: month filter and per-field status counts *)

\* getMonthKeyFromDate: '' for an empty or unparseable input
getMonthKeyFromDate(dateInput, zone) ==
    IF ~Truthy(dateInput) THEN <<>>
    ELSE LET date == NewDateFromString(dateInput)
         IN  IF ~date.valid THEN <<>> ELSE FormatMonthKey(date, zone)

\* the month the Dashboard files a record under (line 156)
RecordMonthKey(record, zone) ==
    getMonthKeyFromDate(IF Truthy(record.assessmentDate)
                        THEN record.assessmentDate ELSE record.createdAt, zone)

\* allRecords.filter(record => getMonthKeyFromDate(...) === activeMonth)
RECURSIVE FilterByMonth(_, _, _)
FilterByMonth(records, activeMonth, zone) ==
    IF records = <<>> THEN <<>>
    ELSE (IF RecordMonthKey(Head(records), zone) = activeMonth
          THEN <<Head(records)>> ELSE <<>>)
         \o FilterByMonth(Tail(records), activeMonth, zone)

\* recordsInSelectedMonth
recordsInSelectedMonth(activeMonth, records, zone) ==
    IF activeMonth = <<>> THEN <<>>
    ELSE FilterByMonth(records, activeMonth, zone)

createStatusCounts == [done |-> 0, notDone |-> 0, na |-> 0, total |-> 0]

\* a switch with a case for 'na' and no default
incrementStatusWithoutDefault(counts, status) ==
    LET c == [counts EXCEPT !.total = @ + 1]
    IN  IF status = "done" THEN [c EXCEPT !.done = @ + 1]
        ELSE IF status = "not_done" THEN [c EXCEPT !.notDone = @ + 1]
        ELSE IF status = "na" THEN [c EXCEPT !.na = @ + 1]
        ELSE c

\* incrementStatus (lines 70-83)
incrementStatus(counts, status) ==
    LET c == [counts EXCEPT !.total = @ + 1]
    IN  IF status = "done" THEN [c EXCEPT !.done = @ + 1]
        ELSE IF status = "not_done" THEN [c EXCEPT !.notDone = @ + 1]
        ELSE [c EXCEPT !.na = @ + 1]

\* records.reduce((acc, record) => incrementStatus(acc, record[field]), createStatusCounts())
RECURSIVE summarizeStatusByField(_, _)
summarizeStatusByField(records, field) ==
    IF records = <<>> THEN createStatusCounts
    ELSE incrementStatus(
             summarizeStatusByField(SubSeq(records, 1, Len(records) - 1), field),
             records[Len(records)][field])

\* Number((numerator / denominator).toFixed(1)), in tenths: toFixed rounds to
\* the nearest tenth, and up when two are equally near (numerator >= 0)
toFixed1(numerator, denominator) ==
    (20 * numerator + denominator) \div (2 * denominator)

\* a percentage that cuts the digits after the first decimal instead of rounding
percentageTruncated(value, total) ==
    [tenths |-> IF total # 0 THEN (1000 * value) \div total ELSE 0]

\* percentage (line 91): total ? Number(((value / total) * 100).toFixed(1)) : 0,
\* as a number of tenths
percentage(value, total) ==
    [tenths |-> IF total # 0 THEN toFixed1(value * 100, total) ELSE 0]

-----------------------------------------------------------------------------
(* The remote collection and its two queries *)

LATEST_EVALUATION_LIMIT == 10

Subs == {"latest", "all"}

\* the ids the store hands out, in order; "" is no id
IdPool == <<"r1", "r2", "r3", "r4", "r5", "r6", "r7", "r8", "r9", "r10", "r11", "r12",
           "r13", "r14">>
IdIndex(id) == CHOOSE i \in 1..Len(IdPool) : IdPool[i] = id

\* the clock when the collection is created, and how far it has advanced when
\* the next document is written (in hours)
StartOfTime == UTC(2025, 1, 31, 22)
ClockStep == 10 * 24

TimeZones == {-5, 9}

\* the zone of the browser the hook runs in: the app is localised for ja-JP
\* (Asia/Tokyo, UTC+9)
HookTimeZones == {9}

Min(a, b) == IF a < b THEN a ELSE b

Ids(seq) == {seq[i].id : i \in 1..Len(seq)}

\* orderBy('createdAt', 'desc'): a null createdAt sorts below every timestamp,
\* equal values are ordered by document id
CreatedAtKey(doc) == IF doc.createdAt.kind = "timestamp" THEN doc.createdAt.time ELSE -1

DocBefore(a, b) ==
    \/ CreatedAtKey(a) > CreatedAtKey(b)
    \/ CreatedAtKey(a) = CreatedAtKey(b) /\ IdIndex(a.id) > IdIndex(b.id)

RECURSIVE OrderByCreatedAtDesc(_)
OrderByCreatedAtDesc(docs) ==
    IF docs = {} THEN <<>>
    ELSE LET first == CHOOSE d \in docs : \A e \in docs \ {d} : DocBefore(d, e)
         IN  <<first>> \o OrderByCreatedAtDesc(docs \ {first})

\* query(evaluationsRef, orderBy('createdAt', 'desc'), limit(LATEST_EVALUATION_LIMIT))
latestQuery(docs) ==
    LET ordered == OrderByCreatedAtDesc(docs)
    IN  SubSeq(ordered, 1, Min(LATEST_EVALUATION_LIMIT, Len(ordered)))

\* query(evaluationsRef, orderBy('createdAt', 'desc'))
allQuery(docs) == OrderByCreatedAtDesc(docs)

QueryOf(sub, docs) == IF sub = "latest" THEN latestQuery(docs) ELSE allQuery(docs)

Snapshot(docs) == [kind |-> "snapshot", docs |-> docs]
ErrorEvent == [kind |-> "error", docs |-> <<>>]

\* onSnapshot: every change of the collection produces, for every listening
\* subscription, a snapshot of its query
Emit(docs, status, queues) ==
    [sub \in Subs |->
        IF status[sub] = "active"
        THEN Append(queues[sub], Snapshot(QueryOf(sub, docs)))
        ELSE queues[sub]]

HasRoom == \A sub \in Subs : subStatus[sub] = "active" => Len(inflight[sub]) < MaxInflight

\* the documents a writer may create at time t: the one saveEvaluation writes
\* for a form submitted at t (assessmentDate is the time of submission), and one
\* without any date
NewDocuments(id, t) ==
    { Document(id, "done", "not_done", TimestampField(t), TimestampField(t)),
      Document(id, "done", "done", AbsentField, AbsentField) }

-----------------------------------------------------------------------------
(* The hook, the Dashboard's delete handler, and the environment *)

ErrorMessage == "Firestore read failed"

NoDocument == Document("", Undefined, Undefined, AbsentField, AbsentField)

\* the harness is idle
IdleCall == [fn |-> "none", docs |-> <<>>, records |-> <<>>, id |-> "", args |-> <<>>,
             stage |-> "idle", threw |-> FALSE, out |-> <<>>]

Loading == latestLoading \/ allLoading

\* a memo with an empty dependency list: computed at the first render only
RenderOnce(records, clock, zone) == summarizeMonthly(<<>>, clock, zone).out

\* the render after a state change: useMemo(() => summarizeMonthly(allRecords), [allRecords])
Render(records, clock, zone) == summarizeMonthly(records, clock, zone).out

-----------------------------------------------------------------------------
(* AppShell's toast and EvaluationForm's state *)

NoToast == [message |-> "", variant |-> "none"]

SavedMessage == "saved"
SaveFailedMessage == "save failed, retry later"
ValidationMessage == "enter or select an assessor"

ToastMessages == {ErrorMessage, SavedMessage, SaveFailedMessage}

\* useMemo of part_004 lines 80-83
AvailableAssessors(storedAssessors, assessorOptions) ==
    IF Len(storedAssessors) # 0 THEN storedAssessors ELSE assessorOptions

\* the form at its first render (part_004 lines 79-92), before any effect
FirstRender(assessorOptions) ==
    [storedAssessors |-> <<>>,
     assessorOptions |-> assessorOptions,
     availableAssessors |-> AvailableAssessors(<<>>, assessorOptions),
     mode |-> IF Len(assessorOptions) # 0 THEN "select" ELSE "custom",
     selectedAssessor |-> <<>>,
     customAssessor |-> <<>>,
     boneProtection |-> "done",
     incontinenceCare |-> "done",
     notes |-> <<>>,
     heightCm |-> <<>>,
     weightKg |-> <<>>,
     error |-> ""]

\* the form as first rendered (lines 84-92) and after its effects (lines 119-148)
\* have run, for the assessors of the records when nothing is stored yet
InitialForm(assessorOptions) ==
    [storedAssessors |-> assessorOptions,
     assessorOptions |-> assessorOptions,
     availableAssessors |-> assessorOptions,
     mode |-> IF assessorOptions # <<>> THEN "select" ELSE "custom",
     selectedAssessor |-> IF assessorOptions # <<>> THEN assessorOptions[1] ELSE <<>>,
     customAssessor |-> <<>>,
     boneProtection |-> "done",
     incontinenceCare |-> "done",
     notes |-> <<>>,
     heightCm |-> <<>>,
     weightKg |-> <<>>,
     error |-> ""]

\* window.localStorage without any item of the app (getItem returns null)
NoItem == [present |-> FALSE, value |-> <<>>]

\* the item 'evaluationForm.assessors' is kept as what its text is to
\* JSON.parse: "array" with its items, "object", "invalid" for text that is no
\* JSON, "empty" for the empty string; NoList is the item that is not there
NoList == [present |-> FALSE, json |-> "none", items |-> <<>>]

\* lastSetItem is how the latest call of setItem ended: "ok" or "threw"
EmptyStorage == [assessors |-> NoList, auth |-> NoItem, lastSetItem |-> "none"]

\* Array.prototype.includes on a list of strings
includes(list, name) == \E i \in 1..Len(list) : list[i] = name

\* the loop of formatAssessorList (part_004 lines 23-33); seen holds what
\* normalized holds
RECURSIVE FormatLoop(_, _, _)
FormatLoop(values, i, normalized) ==
    IF i > Len(values) THEN normalized
    ELSE IF values[i].type # "string" THEN FormatLoop(values, i + 1, normalized)
    ELSE LET trimmed == trim(values[i].chars)
         IN  IF trimmed = <<>> \/ includes(normalized, trimmed)
             THEN FormatLoop(values, i + 1, normalized)
             ELSE FormatLoop(values, i + 1, Append(normalized, trimmed))

\* a formatAssessorList that trims and keeps every string
FormatWithoutSeen(values) ==
    LET strings == SelectSeq(values, LAMBDA v : v.type = "string" /\ trim(v.chars) # <<>>)
    IN  [i \in 1..Len(strings) |-> trim(strings[i].chars)]

\* formatAssessorList (part_004 lines 19-36)
formatAssessorList(values) == FormatLoop(values, 1, <<>>)

\* a list of strings as the values of an array
StringValues(list) == [i \in 1..Len(list) |-> StringValue(list[i])]

\* JSON.stringify of a list of strings, as the item setItem stores
JSONStringify(list) == [present |-> TRUE, json |-> "array", items |-> StringValues(list)]

\* loadStoredAssessors (part_004 lines 38-56): null for an item that is not
\* there, is empty, is no JSON or is no array
loadStoredAssessors(storage) ==
    LET raw == storage.assessors
    IN  IF ~raw.present \/ raw.json = "empty" THEN [null |-> TRUE, list |-> <<>>]
        ELSE IF raw.json = "invalid" THEN [null |-> TRUE, list |-> <<>>]
        ELSE IF raw.json # "array" THEN [null |-> TRUE, list |-> <<>>]
        ELSE [null |-> FALSE, list |-> formatAssessorList(raw.items)]

\* persistAssessors (part_004 lines 58-70) when setItem succeeds (ok) or throws
persistAssessors(values, storage, ok) ==
    LET normalized == formatAssessorList(StringValues(values))
    IN  [list |-> normalized,
         storage |-> IF ok
                     THEN [storage EXCEPT !.assessors = JSONStringify(normalized),
                                          !.lastSetItem = "ok"]
                     ELSE [storage EXCEPT !.lastSetItem = "threw"]]

\* AppShell before its first effect and LoginGate as first rendered, for the
\* access key the build was configured with
InitialGate(accessKey) ==
    [accessKey |-> accessKey, authReady |-> FALSE, isAuthenticated |-> FALSE,
     password |-> <<>>, error |-> "", storageEvents |-> 0, submits |-> 0]

\* the Dashboard's month filter, the browser's storage and the access gate
\* before anything has happened
UiIdle ==
    /\ selectedMonth = <<>>
    /\ localStorage = EmptyStorage
    /\ gate = InitialGate(<<>>)

\* the hook and everything around it before anything has happened in the App
AppIdle ==
    /\ UiIdle
    /\ toast = NoToast
    /\ toastTimer = 0
    /\ timers = {}
    /\ showToastCalls = [m \in ToastMessages |-> 0]
    /\ isSubmitting = FALSE
    /\ form = InitialForm(<<>>)
    /\ pendingSaves = {}
    /\ addDocCalls = 0

\* the hook at its first render, its two subscriptions just opened
HookInit ==
    /\ store = {}
    /\ nextId = 0
    /\ now = StartOfTime
    /\ tz \in HookTimeZones
    /\ subStatus = [sub \in Subs |-> "active"]
    /\ inflight = [sub \in Subs |-> <<Snapshot(<<>>)>>]
    /\ latestRecords = <<>>
    /\ allRecords = <<>>
    /\ error = ""
    /\ latestLoading = TRUE
    /\ allLoading = TRUE
    /\ monthlySummary = <<>>
    /\ deletingId = ""
    /\ pendingDeletes = {}
    /\ deleteDocCalls = {}
    /\ alerts = 0
    /\ mounted = TRUE
    /\ call = IdleCall

Init == HookInit /\ AppIdle

\* some client creates a document; the clock has advanced since the last one
RemoteAdd ==
    /\ nextId < MaxDocs
    /\ HasRoom
    /\ \E doc \in NewDocuments(IdPool[nextId + 1], now) :
          /\ store' = store \cup {doc}
          /\ inflight' = Emit(store', subStatus, inflight)
    /\ nextId' = nextId + 1
    /\ now' = now + ClockStep
    /\ UNCHANGED <<tz, subStatus, latestRecords, allRecords, error, latestLoading,
                   allLoading, monthlySummary, deletingId, pendingDeletes,
                   deleteDocCalls, alerts, mounted, call>>

\* another client deletes a document
RemoteDelete ==
    /\ HasRoom
    /\ \E doc \in store :
          /\ store' = store \ {doc}
          /\ inflight' = Emit(store', subStatus, inflight)
    /\ UNCHANGED <<nextId, now, tz, subStatus, latestRecords, allRecords, error,
                   latestLoading, allLoading, monthlySummary, deletingId,
                   pendingDeletes, deleteDocCalls, alerts, mounted, call>>

\* a listener fails: its error callback is due and it receives nothing more
ListenFail(sub) ==
    /\ subStatus[sub] = "active"
    /\ Len(inflight[sub]) < MaxInflight
    /\ subStatus' = [subStatus EXCEPT ![sub] = "failed"]
    /\ inflight' = [inflight EXCEPT ![sub] = Append(@, ErrorEvent)]
    /\ UNCHANGED <<store, nextId, now, tz, latestRecords, allRecords, error, latestLoading,
                   allLoading, monthlySummary, deletingId, pendingDeletes,
                   deleteDocCalls, alerts, mounted, call>>

\* the snapshot callback of the latest subscription (lines 69-72); an exception
\* of mapDocToRecord leaves the callback before any setter ran
OnLatestSnapshot(docs) ==
    LET mapped == MapDocs(docs, now)
    IN  /\ IF mapped.threw
           THEN UNCHANGED <<latestRecords, latestLoading>>
           ELSE /\ latestRecords' = mapped.records
                /\ latestLoading' = FALSE
        /\ UNCHANGED <<allRecords, allLoading, error, monthlySummary>>

\* the error callback of the latest subscription (lines 73-77)
OnLatestError ==
    /\ error' = ErrorMessage
    /\ latestLoading' = FALSE
    /\ UNCHANGED <<latestRecords, allRecords, allLoading, monthlySummary>>

\* a snapshot callback that also clears the error
OnAllSnapshotClearingError(docs) ==
    LET mapped == MapDocs(docs, now)
    IN  /\ IF mapped.threw
           THEN UNCHANGED <<allRecords, allLoading, monthlySummary>>
           ELSE /\ allRecords' = mapped.records
                /\ allLoading' = FALSE
                /\ monthlySummary' = Render(mapped.records, now, tz)
        /\ error' = ""
        /\ UNCHANGED <<latestRecords, latestLoading>>

\* the snapshot callback of the all subscription (lines 89-92), and the render
\* that recomputes monthlySummary
OnAllSnapshot(docs) ==
    LET mapped == MapDocs(docs, now)
    IN  /\ IF mapped.threw
           THEN UNCHANGED <<allRecords, allLoading, monthlySummary>>
           ELSE /\ allRecords' = mapped.records
                /\ allLoading' = FALSE
                /\ monthlySummary' = Render(mapped.records, now, tz)
        /\ UNCHANGED <<latestRecords, latestLoading, error>>

\* the error callback of the all subscription (lines 93-97)
OnAllError ==
    /\ error' = ErrorMessage
    /\ allLoading' = FALSE
    /\ UNCHANGED <<latestRecords, allRecords, latestLoading, monthlySummary>>

\* the listener delivers its oldest emission, unless it was unsubscribed
Deliver(sub) ==
    /\ subStatus[sub] # "unsubscribed"
    /\ inflight[sub] # <<>>
    /\ inflight' = [inflight EXCEPT ![sub] = Tail(@)]
    /\ LET e == Head(inflight[sub])
       IN  IF sub = "latest"
           THEN IF e.kind = "snapshot" THEN OnLatestSnapshot(e.docs) ELSE OnLatestError
           ELSE IF e.kind = "snapshot" THEN OnAllSnapshot(e.docs) ELSE OnAllError
    /\ UNCHANGED <<store, nextId, now, tz, subStatus, deletingId, pendingDeletes,
                   deleteDocCalls, alerts, mounted, call>>

\* a cleanup that forgets the all subscription
CleanupLatestOnly ==
    /\ mounted
    /\ mounted' = FALSE
    /\ subStatus' = [subStatus EXCEPT !["latest"] = "unsubscribed"]
    /\ UNCHANGED <<store, nextId, now, tz, inflight, latestRecords, allRecords, error,
                   latestLoading, allLoading, monthlySummary, deletingId,
                   pendingDeletes, deleteDocCalls, alerts, call>>

\* unmount: both effects' cleanups run, each calling its unsubscribe (lines 80, 100)
HookCleanup ==
    /\ mounted
    /\ mounted' = FALSE
    /\ subStatus' = [sub \in Subs |-> "unsubscribed"]
    /\ UNCHANGED <<store, nextId, now, tz, inflight, latestRecords, allRecords, error,
                   latestLoading, allLoading, monthlySummary, deletingId,
                   pendingDeletes, deleteDocCalls, alerts, call>>

\* deleteEvaluationRecord without its guard
DeleteWithoutGuard(evaluationId, calls) == calls \cup {evaluationId}

\* deleteEvaluationRecord (lines 27-31): the ids deleteDoc has been called with,
\* after the call
deleteEvaluationRecord(evaluationId, calls) ==
    IF evaluationId = "" THEN calls ELSE calls \cup {evaluationId}

Request(id, caller) == [id |-> id, caller |-> caller]

\* the deleteDoc requests a call started
NewRequests(before, after, caller) == {Request(id, caller) : id \in after \ before}

\* Dashboard.handleDelete up to its await (lines 176-188): the user clicks the
\* delete button of a row of the table and answers the confirm dialog
HandleDelete(evaluationId, confirmed) ==
    /\ mounted /\ ~Loading /\ allRecords # <<>>
    /\ evaluationId \in Ids(latestRecords)
    /\ deletingId # evaluationId
    /\ evaluationId \notin deleteDocCalls
    /\ IF evaluationId = "" \/ ~confirmed
       THEN UNCHANGED <<deletingId, deleteDocCalls, pendingDeletes>>
       ELSE /\ deletingId' = evaluationId
            /\ deleteDocCalls' = deleteEvaluationRecord(evaluationId, deleteDocCalls)
            /\ pendingDeletes' = pendingDeletes
                                 \cup NewRequests(deleteDocCalls, deleteDocCalls', "handleDelete")
    /\ UNCHANGED <<store, nextId, now, tz, subStatus, inflight, latestRecords, allRecords,
                   error, latestLoading, allLoading, monthlySummary,
                   alerts, mounted, call>>

\* deleteDoc succeeds: the document, if it is still there, leaves the collection;
\* a call from handleDelete resumes in its finally block (line 193)
Resolve(req) ==
    /\ req \in pendingDeletes
    /\ pendingDeletes' = pendingDeletes \ {req}
    /\ store' = {d \in store : d.id # req.id}
    /\ IF store' # store
       THEN HasRoom /\ inflight' = Emit(store', subStatus, inflight)
       ELSE UNCHANGED inflight
    /\ IF req.caller = "handleDelete" THEN deletingId' = "" ELSE UNCHANGED deletingId
    /\ UNCHANGED <<nextId, now, tz, subStatus, latestRecords, allRecords, error,
                   latestLoading, allLoading, monthlySummary, deleteDocCalls,
                   alerts, mounted>>

\* deleteDoc is rejected by the store: a call from handleDelete resumes in its
\* catch block (lines 189-191), then in its finally block (line 193)
Reject(req) ==
    /\ req \in pendingDeletes
    /\ pendingDeletes' = pendingDeletes \ {req}
    /\ IF req.caller = "handleDelete"
       THEN alerts' = alerts + 1 /\ deletingId' = ""
       ELSE UNCHANGED <<alerts, deletingId>>
    /\ UNCHANGED <<store, nextId, now, tz, subStatus, inflight, latestRecords, allRecords,
                   error, latestLoading, allLoading, monthlySummary, deleteDocCalls,
                   mounted>>

DeleteDocResolve(req) == Resolve(req) /\ UNCHANGED call

DeleteDocReject(req) == Reject(req) /\ UNCHANGED call

Next ==
    \/ RemoteAdd /\ UNCHANGED appVars
    \/ RemoteDelete /\ UNCHANGED appVars
    \/ \E sub \in Subs : ListenFail(sub) /\ UNCHANGED appVars
    \/ \E sub \in Subs : Deliver(sub) /\ UNCHANGED appVars
    \/ HookCleanup /\ UNCHANGED appVars
    \/ \E id \in Ids(latestRecords), confirmed \in BOOLEAN :
          HandleDelete(id, confirmed) /\ UNCHANGED appVars
    \/ \E req \in pendingDeletes : DeleteDocResolve(req) /\ UNCHANGED appVars
    \/ \E req \in pendingDeletes : DeleteDocReject(req) /\ UNCHANGED appVars

Spec == Init /\ [][Next]_vars

-----------------------------------------------------------------------------
(* AppShell: the hook together with the error effect, the toast, handleSave    *)
(* and the EvaluationForm; the collection is written by this client's          *)
(* saveEvaluation                                                              *)

hookState == <<latestRecords, allRecords, error, latestLoading, allLoading, monthlySummary>>

dashboardState == <<deletingId, pendingDeletes, deleteDocCalls, alerts>>

toastState == <<toast, toastTimer, timers, showToastCalls>>

\* an effect without a dependency list: it runs after every render
ErrorEffectWithoutDeps(previous, current) == current # ""

\* the error effect (App.tsx lines 109-113) runs after a render in which error
\* has changed, and calls showToast when error is set
ErrorEffect(previous, current) == current # previous /\ current # ""

\* a showToast that does not clear the timer of the toast before
showToastKeepingTimer(message, variant) ==
    LET id == 1 + showToastCalls[ErrorMessage] + showToastCalls[SavedMessage]
                + showToastCalls[SaveFailedMessage]
    IN  /\ toast' = IF mounted THEN [message |-> message, variant |-> variant] ELSE toast
        /\ timers' = timers \cup {id}
        /\ toastTimer' = id
        /\ showToastCalls' = [showToastCalls EXCEPT ![message] = @ + 1]

\* showToast (App.tsx lines 99-103): the previous timer is cleared, the toast is
\* set (a state update of an unmounted component is ignored) and a new timer
\* is started
showToast(message, variant) ==
    LET id == 1 + showToastCalls[ErrorMessage] + showToastCalls[SavedMessage]
                + showToastCalls[SaveFailedMessage]
    IN  /\ toast' = IF mounted THEN [message |-> message, variant |-> variant] ELSE toast
        /\ timers' = (timers \ {toastTimer}) \cup {id}
        /\ toastTimer' = id
        /\ showToastCalls' = [showToastCalls EXCEPT ![message] = @ + 1]

\* a callback of the hook, the render it causes and the effects after it
AppDeliver(sub) ==
    /\ Deliver(sub)
    /\ IF ErrorEffect(error, error')
       THEN showToast(error', "error")
       ELSE UNCHANGED toastState
    /\ UNCHANGED <<isSubmitting, form, pendingSaves, addDocCalls>>

\* the timer of a toast fires (the callback of line 102)
ToastTimeout ==
    /\ \E id \in timers :
          /\ timers' = timers \ {id}
          /\ toast' = IF mounted THEN NoToast ELSE toast
    /\ UNCHANGED <<store, nextId, now, tz, subStatus, inflight, mounted, call,
                   toastTimer, showToastCalls, isSubmitting, form, pendingSaves,
                   addDocCalls>>
    /\ UNCHANGED hookState
    /\ UNCHANGED dashboardState

Abe == <<"A", "b", "e">>
Sato == <<"S", "a", "t", "o">>

\* the lists of assessors the form may start with
AssessorLists == {<<>>, <<Sato>>}

\* what a user may put into the form
FormEntries ==
    { [mode |-> "custom", selectedAssessor |-> <<>>, customAssessor |-> <<" ">>,
       boneProtection |-> "not_done", incontinenceCare |-> "na", notes |-> <<"m", " ">>,
       heightCm |-> <<"1", "6", "0">>, weightKg |-> <<>>],
      [mode |-> "custom", selectedAssessor |-> <<>>, customAssessor |-> <<" ">> \o Abe \o <<" ">>,
       boneProtection |-> "na", incontinenceCare |-> "done", notes |-> <<>>,
       heightCm |-> <<"1", "6", "0">>, weightKg |-> <<"4", "5">>],
      [mode |-> "select", selectedAssessor |-> <<>>, customAssessor |-> <<>>,
       boneProtection |-> "done", incontinenceCare |-> "not_done", notes |-> <<"m", " ">>,
       heightCm |-> <<>>, weightKg |-> <<"4", "5">>] }

\* the form's effects (part_004 lines 133-148): without assessors to choose
\* from the selection is empty and the mode is custom; otherwise a selection
\* that is empty or not in the list becomes the first of the list
FormEffects(f) ==
    LET available == AvailableAssessors(f.storedAssessors, f.assessorOptions)
        g == [f EXCEPT !.availableAssessors = available]
    IN  IF available = <<>>
        THEN [g EXCEPT !.selectedAssessor = <<>>, !.mode = "custom"]
        ELSE IF includes(available, g.selectedAssessor)
             THEN g
             ELSE [g EXCEPT !.selectedAssessor = available[1]]

\* the user edits the fields of the form (the onChange handlers)
Fill(entry) ==
    /\ mounted
    /\ form' = FormEffects([form EXCEPT !.mode = entry.mode,
                                        !.selectedAssessor = entry.selectedAssessor,
                                        !.customAssessor = entry.customAssessor,
                                        !.boneProtection = entry.boneProtection,
                                        !.incontinenceCare = entry.incontinenceCare,
                                        !.notes = entry.notes,
                                        !.heightCm = entry.heightCm,
                                        !.weightKg = entry.weightKg])
    /\ UNCHANGED <<store, nextId, now, tz, subStatus, inflight, mounted, call,
                   isSubmitting, pendingSaves, addDocCalls>>
    /\ UNCHANGED toastState
    /\ UNCHANGED hookState
    /\ UNCHANGED dashboardState

\* an assessor taken from the field as typed
AssessorUntrimmed(f) ==
    IF f.mode = "select" THEN f.selectedAssessor ELSE f.customAssessor

\* handleSubmit line 184
Assessor(f) ==
    IF f.mode = "select" THEN f.selectedAssessor ELSE trim(f.customAssessor)

\* handleSubmit lines 191-197
Payload(f, clock) ==
    [assessor |-> Assessor(f),
     boneProtection |-> f.boneProtection,
     incontinenceCare |-> f.incontinenceCare,
     notes |-> trim(f.notes),
     assessmentDate |-> toISOString(DateAt(clock))]

\* EvaluationForm.handleSubmit up to its await (part_004 lines 180-199) with
\* AppShell.handleSave up to its await (App.tsx lines 120-123) and
\* saveEvaluation's call of addDoc; the button is disabled while isSubmitting
HandleSubmit ==
    /\ mounted /\ ~isSubmitting
    /\ IF Assessor(form) = <<>>
       THEN /\ form' = [form EXCEPT !.error = ValidationMessage]
            /\ UNCHANGED <<isSubmitting, pendingSaves, addDocCalls, now>>
       ELSE /\ addDocCalls < MaxSubmits
            /\ form' = [form EXCEPT !.error = ""]
            /\ isSubmitting' = TRUE
            /\ addDocCalls' = addDocCalls + 1
            /\ pendingSaves' = pendingSaves
                               \cup {[payload |-> Payload(form, now), mode |-> form.mode]}
            /\ now' = now + ClockStep
    /\ UNCHANGED <<store, nextId, tz, subStatus, inflight, mounted, call>>
    /\ UNCHANGED toastState
    /\ UNCHANGED hookState
    /\ UNCHANGED dashboardState

\* a handleSubmit that resets the fields only after a custom entry
AfterSaveOfCustomEntry(f, req) ==
    IF req.mode = "custom"
    THEN [f EXCEPT !.notes = <<>>, !.boneProtection = "done", !.incontinenceCare = "done",
                   !.heightCm = <<>>, !.weightKg = <<>>, !.customAssessor = <<>>]
    ELSE f

\* handleSubmit after its await (part_004 lines 201-216)
AfterSave(f, req) ==
    LET reset == [f EXCEPT !.notes = <<>>, !.boneProtection = "done",
                           !.incontinenceCare = "done", !.heightCm = <<>>,
                           !.weightKg = <<>>, !.customAssessor = <<>>]
        assessor == req.payload.assessor
    IN  IF req.mode = "custom"
        THEN FormEffects([reset EXCEPT
                 !.storedAssessors = IF includes(@, assessor) THEN @
                                     ELSE persistAssessors(Append(@, assessor),
                                                           EmptyStorage, TRUE).list,
                 !.selectedAssessor = assessor])
        ELSE reset

\* the storage after handleSubmit's updater (part_004 lines 209-213), whose
\* setItem succeeds (ok) or throws
StorageAfterSave(storage, f, req, ok) ==
    IF req.mode = "custom" /\ ~includes(f.storedAssessors, req.payload.assessor)
    THEN persistAssessors(Append(f.storedAssessors, req.payload.assessor), storage, ok).storage
    ELSE storage

\* the document saveEvaluation writes (part_000 lines 155-167)
SavedDocument(id, payload, serverTime) ==
    [Document(id, payload.boneProtection, payload.incontinenceCare,
              TimestampField(NewDateFromString(payload.assessmentDate).time),
              TimestampField(serverTime))
     EXCEPT !.assessor = StringValue(payload.assessor)]

\* handleSave when saveEvaluation resolved (App.tsx lines 124, 129)
HandleSaveResolved(req) ==
    /\ pendingSaves' = pendingSaves \ {req}
    /\ addDocCalls' = addDocCalls
    /\ showToast(SavedMessage, "success")
    /\ isSubmitting' = FALSE

\* a handleSave that tries the write once more, in vain, before it gives up
HandleSaveRejectedRetrying(req) ==
    /\ pendingSaves' = pendingSaves \ {req}
    /\ addDocCalls' = addDocCalls + 1
    /\ showToast(SaveFailedMessage, "error")
    /\ isSubmitting' = FALSE

\* handleSave when saveEvaluation rejected (App.tsx lines 125-130)
HandleSaveRejected(req) ==
    /\ pendingSaves' = pendingSaves \ {req}
    /\ addDocCalls' = addDocCalls
    /\ showToast(SaveFailedMessage, "error")
    /\ isSubmitting' = FALSE

\* addDoc succeeds: the document is in the collection, with the server's time
\* as createdAt; the form's setItem succeeds (ok) or throws
SaveResolves(req, ok) ==
    /\ req \in pendingSaves
    /\ HasRoom
    /\ store' = store \cup {SavedDocument(IdPool[nextId + 1], req.payload, now)}
    /\ nextId' = nextId + 1
    /\ inflight' = Emit(store', subStatus, inflight)
    /\ HandleSaveResolved(req)
    /\ form' = IF mounted THEN AfterSave(form, req) ELSE form
    /\ localStorage' = IF mounted THEN StorageAfterSave(localStorage, form, req, ok)
                       ELSE localStorage
    /\ UNCHANGED <<now, tz, subStatus, mounted, call>>
    /\ UNCHANGED hookState
    /\ UNCHANGED dashboardState

\* addDoc fails: nothing is written to the collection; the form's setItem
\* succeeds (ok) or throws
SaveRejects(req, ok) ==
    /\ req \in pendingSaves
    /\ HandleSaveRejected(req)
    /\ form' = IF mounted THEN AfterSave(form, req) ELSE form
    /\ localStorage' = IF mounted THEN StorageAfterSave(localStorage, form, req, ok)
                       ELSE localStorage
    /\ UNCHANGED <<store, nextId, now, tz, subStatus, inflight, mounted, call>>
    /\ UNCHANGED hookState
    /\ UNCHANGED dashboardState

AppInit ==
    /\ HookInit
    /\ toast = NoToast
    /\ toastTimer = 0
    /\ timers = {}
    /\ showToastCalls = [m \in ToastMessages |-> 0]
    /\ isSubmitting = FALSE
    /\ form \in {InitialForm(a) : a \in AssessorLists}
    /\ pendingSaves = {}
    /\ addDocCalls = 0
    /\ selectedMonth = <<>>
    /\ localStorage = IF form.storedAssessors = <<>> THEN EmptyStorage
                      ELSE persistAssessors(form.storedAssessors, EmptyStorage, TRUE).storage
    /\ gate = InitialGate(<<>>)

\* AppShell in a browser whose storage takes every write of the form; the
\* writes that fail are followed in SpecAssessors
AppNext ==
    \/ \E sub \in Subs : ListenFail(sub) /\ UNCHANGED appVars
    \/ \E sub \in Subs : AppDeliver(sub) /\ UNCHANGED uiVars
    \/ \E entry \in FormEntries : Fill(entry) /\ UNCHANGED uiVars
    \/ HandleSubmit /\ UNCHANGED uiVars
    \/ \E req \in pendingSaves : SaveResolves(req, TRUE) /\ UNCHANGED <<selectedMonth, gate>>
    \/ \E req \in pendingSaves : SaveRejects(req, TRUE) /\ UNCHANGED <<selectedMonth, gate>>
    \/ ToastTimeout /\ UNCHANGED uiVars

SpecApp == AppInit /\ [][AppNext]_vars

\* AppShell unmounts: the hook's cleanups (useEvaluationData.ts lines 80, 100)
\* and clearToastTimer (App.tsx lines 92-97, 105-107) run
AppUnmount ==
    /\ HookCleanup
    /\ timers' = timers \ {toastTimer}
    /\ toastTimer' = 0
    /\ UNCHANGED <<toast, showToastCalls, isSubmitting, form, pendingSaves, addDocCalls>>

\* AppShell with a form that is ready to be submitted, until it unmounts
ToastNext ==
    \/ \E sub \in Subs : ListenFail(sub) /\ UNCHANGED appVars
    \/ \E sub \in Subs : AppDeliver(sub) /\ UNCHANGED uiVars
    \/ HandleSubmit /\ UNCHANGED uiVars
    \/ \E req \in pendingSaves : SaveResolves(req, TRUE) /\ UNCHANGED <<selectedMonth, gate>>
    \/ \E req \in pendingSaves : SaveRejects(req, TRUE) /\ UNCHANGED <<selectedMonth, gate>>
    \/ ToastTimeout /\ UNCHANGED uiVars
    \/ AppUnmount /\ UNCHANGED uiVars

\* a timer that is pending fires
SpecToast == AppInit /\ [][ToastNext]_vars /\ WF_vars(ToastTimeout /\ UNCHANGED uiVars)

-----------------------------------------------------------------------------
(* The form's list of assessors and the item it keeps in the browser's storage *)

\* what the item 'evaluationForm.assessors' may hold when the form mounts
StoredItems ==
    { NoList,
      [present |-> TRUE, json |-> "empty", items |-> <<>>],
      [present |-> TRUE, json |-> "invalid", items |-> <<>>],
      [present |-> TRUE, json |-> "object", items |-> <<>>],
      JSONStringify(<<>>),
      JSONStringify(<<Sato, Abe>>),
      [present |-> TRUE, json |-> "array",
       items |-> <<StringValue(<<" ">> \o Abe), NumberValue, StringValue(Abe),
                   StringValue(<<" ">>)>>] }

\* the assessors of the records, unique and sorted (App.tsx lines 115-118)
OptionLists == {<<>>, <<Abe, Sato>>}

\* the effect of part_004 lines 119-131, whose setItem succeeds (ok) or throws,
\* with the effects of lines 133-148 that follow it
AssessorsEffect(f, storage, assessorOptions, ok) ==
    LET stored == loadStoredAssessors(storage)
        persisted == persistAssessors(assessorOptions, storage, ok)
        g == [f EXCEPT !.assessorOptions = assessorOptions]
    IN  IF ~stored.null
        THEN [form |-> FormEffects([g EXCEPT !.storedAssessors = stored.list]),
              storage |-> storage]
        ELSE IF Len(assessorOptions) # 0
        THEN [form |-> FormEffects([g EXCEPT !.storedAssessors = persisted.list]),
              storage |-> persisted.storage]
        ELSE [form |-> FormEffects([g EXCEPT !.storedAssessors = <<>>]),
              storage |-> storage]

\* the hook after the first snapshots, of a collection without documents,
\* were delivered to both callbacks
HookLoaded ==
    /\ store = {}
    /\ nextId = 0
    /\ now = StartOfTime
    /\ tz \in HookTimeZones
    /\ subStatus = [sub \in Subs |-> "active"]
    /\ inflight = [sub \in Subs |-> <<>>]
    /\ latestRecords = <<>>
    /\ allRecords = <<>>
    /\ error = ""
    /\ latestLoading = FALSE
    /\ allLoading = FALSE
    /\ monthlySummary = <<>>
    /\ deletingId = ""
    /\ pendingDeletes = {}
    /\ deleteDocCalls = {}
    /\ alerts = 0
    /\ mounted = TRUE
    /\ call = IdleCall

\* the form has mounted, once the collection was loaded, over some item and
\* some records, and its effects have run
AssessorsInit ==
    /\ HookLoaded
    /\ toast = NoToast
    /\ toastTimer = 0
    /\ timers = {}
    /\ showToastCalls = [m \in ToastMessages |-> 0]
    /\ isSubmitting = FALSE
    /\ pendingSaves = {}
    /\ addDocCalls = 0
    /\ selectedMonth = <<>>
    /\ gate = InitialGate(<<>>)
    /\ \E item \in StoredItems, assessorOptions \in OptionLists, ok \in BOOLEAN :
          LET afterEffects == AssessorsEffect(FirstRender(assessorOptions),
                                              [EmptyStorage EXCEPT !.assessors = item],
                                              assessorOptions, ok)
          IN  /\ form = afterEffects.form
              /\ localStorage = afterEffects.storage

\* the records have changed: the form gets a new assessorOptions and the effect
\* of lines 119-131 runs again
AssessorOptionsChange(assessorOptions, ok) ==
    /\ mounted
    /\ LET afterEffects == AssessorsEffect(form, localStorage, assessorOptions, ok)
       IN  /\ form' = afterEffects.form
           /\ localStorage' = afterEffects.storage
    /\ UNCHANGED <<store, nextId, now, tz, subStatus, inflight, mounted, call,
                   isSubmitting, pendingSaves, addDocCalls, selectedMonth, gate>>
    /\ UNCHANGED toastState
    /\ UNCHANGED hookState
    /\ UNCHANGED dashboardState

\* prev.filter((name) => name !== target)
Without(prev, target) == SelectSeq(prev, LAMBDA name : name # target)

\* handleAssessorDelete (part_004 lines 219-236) from the button of a stored
\* name (line 323), confirmed or not, whose setItem succeeds (ok) or throws
HandleAssessorDelete(target, confirmed, ok) ==
    /\ mounted
    /\ includes(form.storedAssessors, target)
    /\ IF target = <<>> \/ ~confirmed
       THEN UNCHANGED <<form, localStorage>>
       ELSE LET next == persistAssessors(Without(form.storedAssessors, target),
                                         localStorage, ok)
            IN  /\ form' = FormEffects(
                       [form EXCEPT !.storedAssessors = next.list,
                                    !.selectedAssessor =
                                        IF @ # target THEN @
                                        ELSE IF Len(next.list) # 0 THEN next.list[1]
                                        ELSE <<>>])
                /\ localStorage' = next.storage
    /\ UNCHANGED <<store, nextId, now, tz, subStatus, inflight, mounted, call,
                   isSubmitting, pendingSaves, addDocCalls, selectedMonth, gate>>
    /\ UNCHANGED toastState
    /\ UNCHANGED hookState
    /\ UNCHANGED dashboardState

\* the form's handlers and effects; the snapshots its writes cause wait to
\* be delivered
AssessorsNext ==
    \/ \E entry \in FormEntries : Fill(entry) /\ UNCHANGED uiVars
    \/ HandleSubmit /\ UNCHANGED uiVars
    \/ \E req \in pendingSaves, ok \in BOOLEAN :
          SaveResolves(req, ok) /\ UNCHANGED <<selectedMonth, gate>>
    \/ \E req \in pendingSaves, ok \in BOOLEAN :
          SaveRejects(req, ok) /\ UNCHANGED <<selectedMonth, gate>>
    \/ \E assessorOptions \in OptionLists, ok \in BOOLEAN :
          AssessorOptionsChange(assessorOptions, ok)
    \/ \E i \in 1..Len(form.storedAssessors), confirmed \in BOOLEAN, ok \in BOOLEAN :
          HandleAssessorDelete(form.storedAssessors[i], confirmed, ok)

SpecAssessors == AssessorsInit /\ [][AssessorsNext]_vars

-----------------------------------------------------------------------------
(* The access gate: AppShell's authentication state and LoginGate *)

\* the item 'auth' holding the text 'true'
TrueItem == [present |-> TRUE, value |-> <<"t", "r", "u", "e">>]

\* what the item 'auth' may hold when the page is loaded
AuthItems == {NoItem, TrueItem, [present |-> TRUE, value |-> <<"1">>]}

Secret == <<"k", "e", "y">>

\* ACCESS_KEY (part_003 line 3) as the build may have configured it
AccessKeys == {<<>>, Secret}

\* what a visitor may type into the password field
Passwords == {<<>>, Secret, <<" ">> \o Secret \o <<" ">>, <<"k", "e">>, <<"K", "E", "Y">>}

MissingKeyMessage == "the access key is not configured"
WrongPasswordMessage == "the password is wrong"
NotStoredMessage == "the authentication could not be stored"

\* a getStoredAuthFlag that takes any item for the flag
getStoredAuthFlagOfAnyItem(storage, threw) == ~threw /\ storage.auth.present

\* getStoredAuthFlag (App.tsx lines 22-33), reading a storage that answers or
\* throws
getStoredAuthFlag(storage, threw) == ~threw /\ storage.auth = TrueItem

\* what AppShell renders (App.tsx lines 137-147 and what follows them)
Rendered ==
    IF ~gate.authReady THEN "waiting"
    ELSE IF ~gate.isAuthenticated THEN "LoginGate"
    ELSE "tabs"

\* the page is loaded: AppShell's first render (App.tsx lines 47-48)
GateInit ==
    /\ HookInit
    /\ toast = NoToast
    /\ toastTimer = 0
    /\ timers = {}
    /\ showToastCalls = [m \in ToastMessages |-> 0]
    /\ isSubmitting = FALSE
    /\ form = InitialForm(<<>>)
    /\ pendingSaves = {}
    /\ addDocCalls = 0
    /\ selectedMonth = <<>>
    /\ \E item \in AuthItems : localStorage = [EmptyStorage EXCEPT !.auth = item]
    /\ \E accessKey \in AccessKeys, threw \in BOOLEAN :
          gate = [InitialGate(accessKey) EXCEPT
                     !.isAuthenticated = getStoredAuthFlag(localStorage, threw)]

\* what no step of the gate changes
GateUnchanged ==
    /\ UNCHANGED <<store, nextId, now, tz, subStatus, inflight, mounted, call,
                   isSubmitting, form, pendingSaves, addDocCalls, selectedMonth>>
    /\ UNCHANGED toastState
    /\ UNCHANGED hookState
    /\ UNCHANGED dashboardState

\* the effect of App.tsx lines 54-57
AuthEffect(threw) ==
    /\ mounted /\ ~gate.authReady
    /\ gate' = [gate EXCEPT !.isAuthenticated = getStoredAuthFlag(localStorage, threw),
                            !.authReady = TRUE]
    /\ UNCHANGED localStorage
    /\ GateUnchanged

\* the visitor types into LoginGate's password field
TypePassword(password) ==
    /\ mounted /\ Rendered = "LoginGate"
    /\ gate' = [gate EXCEPT !.password = password]
    /\ UNCHANGED localStorage
    /\ GateUnchanged

\* LoginGate.handleSubmit (part_003 lines 14-40) with handleLoginSuccess
\* (App.tsx lines 133-135); setItem succeeds (ok) or throws, and the read
\* after it answers or throws
LoginSubmit(ok, threw) ==
    /\ mounted /\ Rendered = "LoginGate"
    /\ gate.submits < MaxSubmits
    /\ IF gate.accessKey = <<>>
       THEN /\ gate' = [gate EXCEPT !.error = MissingKeyMessage, !.submits = @ + 1]
            /\ UNCHANGED localStorage
       ELSE IF trim(gate.password) # gate.accessKey
       THEN /\ gate' = [gate EXCEPT !.error = WrongPasswordMessage, !.submits = @ + 1]
            /\ UNCHANGED localStorage
       ELSE IF ok
       THEN /\ localStorage' = [localStorage EXCEPT !.auth = TrueItem, !.lastSetItem = "ok"]
            /\ gate' = [gate EXCEPT !.error = "", !.password = <<>>, !.submits = @ + 1,
                                    !.isAuthenticated = getStoredAuthFlag(localStorage', threw)]
       ELSE /\ localStorage' = [localStorage EXCEPT !.lastSetItem = "threw"]
            /\ gate' = [gate EXCEPT !.error = NotStoredMessage, !.submits = @ + 1]
    /\ GateUnchanged

\* another tab of the app logs in: the item changes and this tab is sent a
\* 'storage' event
OtherTabLogin ==
    /\ localStorage.auth # TrueItem
    /\ localStorage' = [localStorage EXCEPT !.auth = TrueItem]
    /\ gate' = [gate EXCEPT !.storageEvents = @ + 1]
    /\ GateUnchanged

\* syncAuthState (App.tsx lines 64-66) handles a 'storage' event; an event
\* that comes before the listener is there is lost
SyncAuthState(threw) ==
    /\ gate.storageEvents > 0
    /\ gate' = [gate EXCEPT !.storageEvents = @ - 1,
                            !.isAuthenticated =
                                IF mounted /\ gate.authReady
                                THEN getStoredAuthFlag(localStorage, threw) ELSE @]
    /\ UNCHANGED localStorage
    /\ GateUnchanged

GateNext ==
    \/ \E threw \in BOOLEAN : AuthEffect(threw)
    \/ \E password \in Passwords : TypePassword(password)
    \/ \E ok \in BOOLEAN, threw \in BOOLEAN : LoginSubmit(ok, threw)
    \/ OtherTabLogin
    \/ \E threw \in BOOLEAN : SyncAuthState(threw)

SpecGate == GateInit /\ [][GateNext]_vars

-----------------------------------------------------------------------------
(* The functions called on their own: a snapshot taken through mapDocToRecord  *)
(* and summarizeMonthly as the hook does ("pipeline"), summarizeMonthly on     *)
(* records of type EvaluationRecord, and deleteEvaluationRecord on an id.      *)

\* all sequences over S of length at most n
SeqsUpTo(S, n) == UNION {[1..k -> S] : k \in 0..n}

\* status fields of stored documents: CareStatus values, a missing field, and a
\* string that is no CareStatus
DocumentStatuses == { <<"done", "not_done">>, <<"bogus", "na">>,
                      <<Undefined, "done">>, <<"na", "bogus">> }

\* date fields of stored documents: <<assessmentDate, createdAt>>
DocumentDates == { <<TimestampField(UTC(2025, 1, 15, 0)), TimestampField(UTC(2025, 2, 10, 0))>>,
                   <<AbsentField, TimestampField(UTC(2025, 2, 10, 0))>>,
                   <<AbsentField, AbsentField>>,
                   <<StringField(GarbageString), TimestampField(UTC(2025, 2, 10, 0))>>,
                   <<StringField(IsoString(CivilFromHours(UTC(2025, 1, 31, 20)))), AbsentField>> }

DocumentContents == DocumentStatuses \X DocumentDates

\* the documents of a snapshot, the i-th with the i-th id
DocumentsOf(contents) ==
    [i \in 1..Len(contents) |->
        Document(IdPool[i], contents[i][1][1], contents[i][1][2],
                 contents[i][2][1], contents[i][2][2])]

\* records of type EvaluationRecord: both statuses are CareStatus values, both
\* dates are strings
RecordStatuses == { <<"done", "not_done">>, <<"na", "na">>, <<"done", "done">>,
                    <<"not_done", "na">> }

RecordDates == { <<IsoString(CivilFromHours(UTC(2025, 1, 15, 0))), IsoString(CivilFromHours(UTC(2025, 2, 10, 0)))>>,
                 <<IsoString(CivilFromHours(UTC(2024, 12, 20, 0))), IsoString(CivilFromHours(UTC(2025, 2, 10, 0)))>>,
                 <<IsoString(CivilFromHours(UTC(2025, 1, 31, 20))), IsoString(CivilFromHours(UTC(2025, 2, 10, 0)))>>,
                 <<GarbageString, IsoString(CivilFromHours(UTC(2025, 2, 10, 0)))>>,
                 <<EmptyString, IsoString(CivilFromHours(UTC(2025, 2, 10, 0)))>>,
                 <<EmptyString, GarbageString>>,
                 <<EmptyString, EmptyString>> }

RecordContents == RecordStatuses \X RecordDates

RecordsOf(contents) ==
    [i \in 1..Len(contents) |->
        EvaluationRecord(IdPool[i], contents[i][1][1], contents[i][1][2],
                         contents[i][2][1], contents[i][2][2])]

FnClocks == {UTC(2025, 1, 31, 22), UTC(2025, 2, 20, 0)}

\* the text of a date without a time, which Date reads as midnight UTC
DateOnlyString(y, m, d) == IsoString([year |-> y, month |-> m, day |-> d, hour |-> 0])

\* three records of two months: done/not_done on 2025-01-15, na/na on
\* 2025-01-20, done/done on 2025-02-01
ExampleRecords ==
    << EvaluationRecord("r1", "done", "not_done", DateOnlyString(2025, 1, 15),
                        DateOnlyString(2025, 1, 15)),
       EvaluationRecord("r2", "na", "na", DateOnlyString(2025, 1, 20),
                        DateOnlyString(2025, 1, 20)),
       EvaluationRecord("r3", "done", "done", DateOnlyString(2025, 2, 1),
                        DateOnlyString(2025, 2, 1)) >>

CareFields == {"boneProtection", "incontinenceCare"}

\* records as mapDocToRecord returns them: a status may be any stored string
CountedStatuses == { <<"done", "not_done">>, <<"na", "bogus">>, <<"bogus", "done">>,
                     <<"not_done", "na">> }

CountedContents ==
    CountedStatuses \X { <<IsoString(CivilFromHours(UTC(2025, 1, 15, 0))),
                           IsoString(CivilFromHours(UTC(2025, 2, 10, 0)))>> }

\* assessor fields of stored documents: missing, no string, empty, blank,
\* padded and plain strings
AssessorValues ==
    { MissingValue, NumberValue, StringValue(<<>>), StringValue(<<" ">>),
      StringValue(<<" ", " ">>), StringValue(<<" ", "A", "b", "e", " ">>),
      StringValue(<<"A", " ", "b">>), StringValue(<<"A", "b", "e">>),
      StringValue(<<"u", "n", "s", "e", "t">>) }

\* documents that differ in their assessor
AssessedDocuments(values) ==
    [i \in 1..Len(values) |->
        [Document(IdPool[i], "done", "not_done", TimestampField(UTC(2025, 1, 15, 0)),
                  IF i = 1 THEN TimestampField(UTC(2025, 2, 10, 0)) ELSE AbsentField)
         EXCEPT !.assessor = values[i]]]

\* the calls of one function on sequences of one length
FnCalls(fn, len) ==
    CASE fn = "pipeline" ->
           {[IdleCall EXCEPT !.fn = "pipeline", !.stage = "start", !.docs = DocumentsOf(c)] :
               c \in [1..len -> DocumentContents]}
      [] fn = "mapDocToRecord" ->
           {[IdleCall EXCEPT !.fn = "mapDocToRecord", !.stage = "start",
                             !.docs = AssessedDocuments(v)] :
               v \in [1..len -> AssessorValues]}
      [] fn = "summarizeMonthly" ->
           {[IdleCall EXCEPT !.fn = "summarizeMonthly", !.stage = "mapped",
                             !.records = RecordsOf(c)] :
               c \in [1..len -> RecordContents]}
           \cup {[IdleCall EXCEPT !.fn = "summarizeMonthly", !.stage = "mapped",
                                  !.records = ExampleRecords]}
      [] fn = "deleteEvaluationRecord" ->
           {[IdleCall EXCEPT !.fn = "deleteEvaluationRecord", !.stage = "start", !.id = i] :
               i \in {"", "r1", "r2"}}
      [] fn = "summarizeStatusByField" ->
           {[IdleCall EXCEPT !.fn = "summarizeStatusByField", !.stage = "start",
                             !.records = RecordsOf(c), !.args = <<field>>] :
               c \in [1..len -> CountedContents], field \in CareFields}
      [] fn = "percentage" ->
           {[IdleCall EXCEPT !.fn = "percentage", !.stage = "start",
                             !.args = <<value, total>>] :
               value \in 0..MaxCount, total \in 0..MaxCount}

\* the collection the delete calls run against
FnStore == { Document("r1", "done", "not_done", TimestampField(UTC(2025, 1, 15, 0)),
                      TimestampField(UTC(2025, 2, 10, 0))) }

FnInit ==
    /\ store = FnStore
    /\ nextId = 1
    /\ now \in FnClocks
    /\ tz \in TimeZones
    /\ subStatus = [sub \in Subs |-> "unsubscribed"]
    /\ inflight = [sub \in Subs |-> <<>>]
    /\ latestRecords = <<>>
    /\ allRecords = <<>>
    /\ error = ""
    /\ latestLoading = TRUE
    /\ allLoading = TRUE
    /\ monthlySummary = <<>>
    /\ deletingId = ""
    /\ pendingDeletes = {}
    /\ deleteDocCalls = {}
    /\ alerts = 0
    /\ mounted = FALSE
    /\ \E fn \in {"pipeline", "mapDocToRecord", "summarizeMonthly", "deleteEvaluationRecord",
                 "summarizeStatusByField", "percentage"}, len \in 0..MaxLen :
          call \in FnCalls(fn, len)
    /\ AppIdle

FnUnchanged ==
    UNCHANGED <<store, nextId, now, tz, subStatus, inflight, latestRecords, allRecords,
                error, latestLoading, allLoading, monthlySummary, deletingId, alerts,
                mounted>>

\* snapshot.docs.map(mapDocToRecord)
CallMapDocs ==
    /\ call.fn \in {"pipeline", "mapDocToRecord"} /\ call.stage = "start"
    /\ LET mapped == MapDocs(call.docs, now)
       IN  call' = [call EXCEPT !.stage = "mapped", !.threw = mapped.threw,
                                !.records = mapped.records]
    /\ UNCHANGED <<pendingDeletes, deleteDocCalls>>
    /\ FnUnchanged

\* summarizeMonthly(records)
CallSummarizeMonthly ==
    /\ call.fn \in {"pipeline", "summarizeMonthly"}
    /\ call.stage = "mapped" /\ ~call.threw
    /\ LET r == summarizeMonthly(call.records, now, tz)
       IN  call' = [call EXCEPT !.stage = "summarized", !.threw = r.threw, !.out = r.out]
    /\ UNCHANGED <<pendingDeletes, deleteDocCalls>>
    /\ FnUnchanged

\* deleteEvaluationRecord(id), up to its await
CallDeleteEvaluationRecord ==
    /\ call.fn = "deleteEvaluationRecord" /\ call.stage = "start"
    /\ deleteDocCalls' = deleteEvaluationRecord(call.id, deleteDocCalls)
    /\ pendingDeletes' = pendingDeletes \cup NewRequests(deleteDocCalls, deleteDocCalls', "direct")
    /\ call' = [call EXCEPT !.stage = IF pendingDeletes' = pendingDeletes
                                      THEN "resolved" ELSE "awaiting"]
    /\ FnUnchanged

\* the awaited deleteDoc settles and the call with it
CallSettles ==
    /\ call.stage = "awaiting"
    /\ \E req \in pendingDeletes :
          \/ Resolve(req) /\ call' = [call EXCEPT !.stage = "resolved"]
          \/ Reject(req) /\ call' = [call EXCEPT !.stage = "rejected"]

\* summarizeStatusByField(records, field)
CallSummarizeStatusByField ==
    /\ call.fn = "summarizeStatusByField" /\ call.stage = "start"
    /\ call' = [call EXCEPT !.stage = "returned",
                            !.out = summarizeStatusByField(call.records, call.args[1])]
    /\ UNCHANGED <<pendingDeletes, deleteDocCalls>>
    /\ FnUnchanged

\* percentage(value, total)
CallPercentage ==
    /\ call.fn = "percentage" /\ call.stage = "start"
    /\ call' = [call EXCEPT !.stage = "returned",
                            !.out = percentage(call.args[1], call.args[2])]
    /\ UNCHANGED <<pendingDeletes, deleteDocCalls>>
    /\ FnUnchanged

FnNext ==
    \/ CallMapDocs /\ UNCHANGED appVars
    \/ CallSummarizeMonthly /\ UNCHANGED appVars
    \/ CallDeleteEvaluationRecord /\ UNCHANGED appVars
    \/ CallSettles /\ UNCHANGED appVars
    \/ CallSummarizeStatusByField /\ UNCHANGED appVars
    \/ CallPercentage /\ UNCHANGED appVars

SpecFn == FnInit /\ [][FnNext]_vars

-----------------------------------------------------------------------------
(* The hook mounted over a collection that already holds documents *)

\* one document more than the latest query returns
MaxStored == LATEST_EVALUATION_LIMIT + 1

\* the i-th document of the collection, written by saveEvaluation a day after
\* the one before it
StoredDocument(i) ==
    Document(IdPool[i], "done", "not_done",
             TimestampField(StartOfTime - (MaxStored + 1 - i) * 24),
             TimestampField(StartOfTime - (MaxStored + 1 - i) * 24))

\* a document without any date, its createdAt null
UndatedDocument == Document(IdPool[MaxStored + 1], "done", "done", AbsentField, AbsentField)

\* the collections the hook may find when it subscribes
LiveStores ==
    { {StoredDocument(i) : i \in 1..k} \cup extra :
        k \in 0..MaxStored, extra \in {{}, {UndatedDocument}} }

\* the hook at its first render: each subscription's first snapshot is due
LiveInit ==
    /\ store \in LiveStores
    /\ nextId = MaxStored + 1
    /\ now = StartOfTime
    /\ tz \in HookTimeZones
    /\ subStatus = [sub \in Subs |-> "active"]
    /\ inflight = [sub \in Subs |-> <<Snapshot(QueryOf(sub, store))>>]
    /\ latestRecords = <<>>
    /\ allRecords = <<>>
    /\ error = ""
    /\ latestLoading = TRUE
    /\ allLoading = TRUE
    /\ monthlySummary = <<>>
    /\ deletingId = ""
    /\ pendingDeletes = {}
    /\ deleteDocCalls = {}
    /\ alerts = 0
    /\ mounted = TRUE
    /\ call = IdleCall
    /\ AppIdle

\* another client deletes the most recent document
RemoteDeleteNewest ==
    /\ HasRoom
    /\ store # {}
    /\ store' = store \ {Head(allQuery(store))}
    /\ inflight' = Emit(store', subStatus, inflight)
    /\ UNCHANGED <<nextId, now, tz, subStatus, latestRecords, allRecords, error,
                   latestLoading, allLoading, monthlySummary, deletingId,
                   pendingDeletes, deleteDocCalls, alerts, mounted, call>>

LiveNext ==
    \/ RemoteDeleteNewest /\ UNCHANGED appVars
    \/ \E sub \in Subs : ListenFail(sub) /\ UNCHANGED appVars
    \/ \E sub \in Subs : Deliver(sub) /\ UNCHANGED appVars

\* a step in which the listener of sub hands over its oldest emission: under
\* LiveNext these are the steps of Deliver(sub), and it is enabled when
\* Deliver(sub) is
Delivers(sub) ==
    /\ subStatus[sub] # "unsubscribed"
    /\ inflight[sub] # <<>>
    /\ inflight' = [inflight EXCEPT ![sub] = Tail(@)]

\* the browser runs every callback that is due
LiveFairness == \A sub \in Subs : WF_inflight(Delivers(sub))

SpecLive == LiveInit /\ [][LiveNext]_vars /\ LiveFairness

-----------------------------------------------------------------------------
(* The Dashboard's month filter *)

\* insertion of an option into a list sorted with
\* (a, b) => b.monthKey.localeCompare(a.monthKey), after its equals (stable)
RECURSIVE InsertMonthOption(_, _)
InsertMonthOption(sorted, x) ==
    IF sorted = <<>> THEN <<x>>
    ELSE IF localeCompare(Head(sorted).value, x.value) < 0
         THEN <<x>> \o sorted
         ELSE <<Head(sorted)>> \o InsertMonthOption(Tail(sorted), x)

\* monthOptions: the months of monthlySummary, the most recent first
RECURSIVE monthOptions(_)
monthOptions(summaries) ==
    IF summaries = <<>> THEN <<>>
    ELSE InsertMonthOption(
             monthOptions(SubSeq(summaries, 1, Len(summaries) - 1)),
             [value |-> summaries[Len(summaries)].monthKey,
              label |-> summaries[Len(summaries)].label])

\* a Dashboard without the effect: the selection is kept whatever the options
SelectedMonthKept(selected, options) == selected

\* the effect that drops a selected month which is no option any more
SelectedMonthEffect(selected, options) ==
    IF selected # <<>> /\ ~\E k \in 1..Len(options) : options[k].value = selected
    THEN <<>>
    ELSE selected

\* monthOptions[0]?.value ?? ''
fallbackMonth(options) == IF options = <<>> THEN <<>> ELSE options[1].value

\* selectedMonth || fallbackMonth
activeMonth(selected, options) ==
    IF selected # <<>> THEN selected ELSE fallbackMonth(options)

\* the earlier Dashboard: selectedMonth || monthlySummary[monthlySummary.length - 1]?.monthKey ?? ''
activeMonthOfSummary(selected, summaries) ==
    IF selected # <<>> THEN selected
    ELSE IF summaries = <<>> THEN <<>> ELSE summaries[Len(summaries)].monthKey

\* the records the hook may hand to the Dashboard: of three months
DashboardRecords ==
    {RecordsOf(c) : c \in SeqsUpTo({<<"done", "not_done">>, <<"na", "na">>} \X
        { <<IsoString(CivilFromHours(UTC(2025, 1, 15, 0))), IsoString(CivilFromHours(UTC(2025, 2, 10, 0)))>>,
          <<IsoString(CivilFromHours(UTC(2024, 12, 20, 0))), IsoString(CivilFromHours(UTC(2025, 2, 10, 0)))>>,
          <<IsoString(CivilFromHours(UTC(2025, 1, 31, 20))), IsoString(CivilFromHours(UTC(2025, 2, 10, 0)))>> },
        MaxLen)}

\* the hook hands new records and their summary to the Dashboard, which
\* renders and runs its effects
DashboardRender(records) ==
    /\ mounted
    /\ records # allRecords \/ Loading
    /\ allRecords' = records
    /\ latestRecords' = SubSeq(records, 1, Min(LATEST_EVALUATION_LIMIT, Len(records)))
    /\ latestLoading' = FALSE
    /\ allLoading' = FALSE
    /\ monthlySummary' = Render(records, now, tz)
    /\ selectedMonth' = SelectedMonthEffect(selectedMonth, monthOptions(monthlySummary'))
    /\ UNCHANGED <<store, nextId, now, tz, subStatus, inflight, error, deletingId,
                   pendingDeletes, deleteDocCalls, alerts, mounted, call>>

\* the user picks a month in the select, which offers monthOptions
\* (onChange, line 219), and the effect runs
SelectMonth(value) ==
    /\ mounted /\ ~Loading /\ allRecords # <<>>
    /\ \E k \in 1..Len(monthOptions(monthlySummary)) :
          monthOptions(monthlySummary)[k].value = value
    /\ selectedMonth' = SelectedMonthEffect(value, monthOptions(monthlySummary))
    /\ UNCHANGED <<store, nextId, now, tz, subStatus, inflight, latestRecords,
                   allRecords, error, latestLoading, allLoading, monthlySummary,
                   deletingId, pendingDeletes, deleteDocCalls, alerts, mounted, call>>

DashboardNext ==
    \/ \E records \in DashboardRecords :
          DashboardRender(records)
          /\ UNCHANGED <<toast, toastTimer, timers, showToastCalls, isSubmitting, form,
                         pendingSaves, addDocCalls, localStorage, gate>>
    \/ \E k \in 1..Len(monthlySummary) :
          SelectMonth(monthlySummary[k].monthKey)
          /\ UNCHANGED <<toast, toastTimer, timers, showToastCalls, isSubmitting, form,
                         pendingSaves, addDocCalls, localStorage, gate>>

SpecDashboard == Init /\ [][DashboardNext]_vars

-----------------------------------------------------------------------------
(* Properties *)

CareStatuses == {"done", "not_done", "na"}

Summarized == call.stage = "summarized" /\ ~call.threw

\* the total of the bucket of monthKey in a list of summaries, 0 when it has none
TotalOf(summaries, monthKey) ==
    IF IndexOfKey(summaries, monthKey) = 0 THEN 0
    ELSE summaries[IndexOfKey(summaries, monthKey)].total

CurrentMonthKey == FormatMonthKey(DateAt(now), tz)

\* C1: for every MonthlySummary that summarizeMonthly returns,
\* done + notDone + na = 2 * total
C1_CountsAreTwiceTotal ==
    Summarized =>
        \A k \in 1..Len(call.out) :
            call.out[k].done + call.out[k].notDone + call.out[k].na = 2 * call.out[k].total

\* C2: for every monthKey of summarizeMonthly's output, summarizing the records
\* the Dashboard filters for that month gives exactly one summary, the one of
\* that bucket, whose total is the per-field total over the filtered records and
\* whose done/notDone/na are the sums of the two per-field counts
C2_FilterAgreesWithBucket ==
    Summarized =>
        \A k \in 1..Len(call.out) :
            LET subset == recordsInSelectedMonth(call.out[k].monthKey, call.records, tz)
                again == summarizeMonthly(subset, now, tz)
                bone == summarizeStatusByField(subset, "boneProtection")
                inc == summarizeStatusByField(subset, "incontinenceCare")
            IN  /\ ~again.threw
                /\ Len(again.out) = 1
                /\ again.out[1] = call.out[k]
                /\ again.out[1].total = bone.total
                /\ again.out[1].total = inc.total
                /\ again.out[1].done = bone.done + inc.done
                /\ again.out[1].notDone = bone.notDone + inc.notDone
                /\ again.out[1].na = bone.na + inc.na

HasNoDate(doc) == doc.assessmentDate.kind = "absent" /\ doc.createdAt.kind = "absent"

\* C3: a document with neither assessmentDate nor createdAt is mapped without an
\* exception to a record whose assessmentDate is the current time, and
\* summarizeMonthly counts that record in the current month's bucket
C3_MissingDatesFallBackToNow ==
    (call.fn = "pipeline" /\ call.stage # "start"
     /\ \E i \in 1..Len(call.docs) : HasNoDate(call.docs[i]))
    => /\ ~(call.stage = "mapped" /\ call.threw)
       /\ \A i \in 1..Len(call.docs) :
             HasNoDate(call.docs[i])
             => call.records[i].assessmentDate = toISOString(DateAt(now))
       /\ call.stage = "summarized"
          => /\ ~call.threw
             /\ TotalOf(call.out, CurrentMonthKey)
                >= Cardinality({i \in 1..Len(call.docs) : HasNoDate(call.docs[i])})

InvalidStatus(value) == value \notin CareStatuses /\ value # Undefined

SumOfNa(summaries) ==
    LET RECURSIVE Sum(_)
        Sum(k) == IF k = 0 THEN 0 ELSE summaries[k].na + Sum(k - 1)
    IN  Sum(Len(summaries))

\* C4: a stored status outside {done, not_done, na} is mapped to na, and is
\* counted as na, once per field, by summarizeMonthly and by the per-field counts
C4_InvalidStatusCountsAsNa ==
    (call.fn = "pipeline" /\ call.stage # "start" /\ ~call.threw
     /\ \E i \in 1..Len(call.docs) :
           InvalidStatus(call.docs[i].boneProtection)
           \/ InvalidStatus(call.docs[i].incontinenceCare))
    => LET n == Len(call.docs)
           naBone == {i \in 1..n : call.docs[i].boneProtection \notin {"done", "not_done"}}
           naInc == {i \in 1..n : call.docs[i].incontinenceCare \notin {"done", "not_done"}}
       IN  /\ \A i \in 1..n :
                 /\ InvalidStatus(call.docs[i].boneProtection)
                    => call.records[i].boneProtection = "na"
                 /\ InvalidStatus(call.docs[i].incontinenceCare)
                    => call.records[i].incontinenceCare = "na"
           /\ summarizeStatusByField(call.records, "boneProtection").na = Cardinality(naBone)
           /\ summarizeStatusByField(call.records, "incontinenceCare").na = Cardinality(naInc)
           /\ call.stage = "summarized"
              => SumOfNa(call.out) = Cardinality(naBone) + Cardinality(naInc)

\* the date string summarizeMonthly reads from a record
EffectiveDate(record) ==
    IF Truthy(record.assessmentDate) THEN record.assessmentDate ELSE record.createdAt

IsMonthKey(key) ==
    /\ Len(key) = 7
    /\ key[5] = "-"
    /\ \A p \in {1, 2, 3, 4, 6, 7} : \E d \in 1..10 : Digits[d] = key[p]

\* C5: given a record whose effective date is a non-empty unparseable string,
\* summarizeMonthly does not throw and counts the record in the current month's
\* bucket; every key it returns is a YYYY-MM month
C5_UnparseableDateCountsInCurrentMonth ==
    (call.fn = "summarizeMonthly" /\ call.stage = "summarized"
     /\ \E i \in 1..Len(call.records) : EffectiveDate(call.records[i]).kind = "text")
    => /\ ~call.threw
       /\ \A k \in 1..Len(call.out) : IsMonthKey(call.out[k].monthKey)
       /\ TotalOf(call.out, CurrentMonthKey)
          >= Cardinality({i \in 1..Len(call.records) :
                             EffectiveDate(call.records[i]).kind = "text"})

\* C6: the output of summarizeMonthly is strictly ascending by monthKey, so no
\* two summaries share a monthKey
C6_StrictlyAscendingMonthKeys ==
    Summarized =>
        /\ \A k \in 1..(Len(call.out) - 1) :
              localeCompare(call.out[k].monthKey, call.out[k + 1].monthKey) < 0
        /\ \A j, k \in 1..Len(call.out) :
              call.out[j].monthKey = call.out[k].monthKey => j = k

\* C6: records of two months, the later month first in the input
C6_Witness ==
    /\ Summarized
    /\ Len(call.out) >= 2
    /\ Len(call.records) >= 2
    /\ localeCompare(FormatMonthKey(SummaryDate(call.records[1], now), tz),
                     FormatMonthKey(SummaryDate(call.records[2], now), tz)) > 0

\* the view a subscription's snapshot callback sets
ViewOf(sub, latest, all) == IF sub = "latest" THEN latest ELSE all

IssuedIds == {IdPool[i] : i \in 1..nextId}

\* this step is the delivery of the oldest emission of sub, a snapshot
DeliversSnapshot(sub) ==
    /\ inflight[sub] # <<>>
    /\ Head(inflight[sub]).kind = "snapshot"
    /\ inflight'[sub] = Tail(inflight[sub])

\* the month of the record with this id in allRecords
MonthKeyOfId(records, id) ==
    LET i == CHOOSE j \in 1..Len(records) : records[j].id = id
    IN  FormatMonthKey(SummaryDate(records[i], now), tz)

\* C7: when a snapshot taken after the deletion of a record is delivered, the
\* record's id is absent from the view of that subscription afterwards, and
\* monthlySummary no longer counts it: the total of its bucket is one less
C7_DeletedRecordLeavesViews ==
    [][\A sub \in Subs : \A id \in IssuedIds :
          (DeliversSnapshot(sub)
           /\ id \notin {d.id : d \in store}
           /\ id \notin Ids(Head(inflight[sub]).docs))
          => /\ id \notin Ids(ViewOf(sub, latestRecords', allRecords'))
             /\ (sub = "all" /\ id \in Ids(allRecords)
                 /\ Ids(Head(inflight[sub]).docs) = Ids(allRecords) \ {id})
                => TotalOf(monthlySummary', MonthKeyOfId(allRecords, id))
                   = TotalOf(monthlySummary, MonthKeyOfId(allRecords, id)) - 1]_vars

\* C8: after the hook's cleanup no callback of either subscription runs:
\* latestRecords, allRecords, loading and error never change again
C8_NoCallbackAfterUnsubscribe ==
    [][~mounted =>
          /\ latestRecords' = latestRecords
          /\ allRecords' = allRecords
          /\ latestLoading' = latestLoading
          /\ allLoading' = allLoading
          /\ error' = error]_vars

\* C8: the hook is unmounted, an emission was in flight when it was, and the
\* collection has since received a document no emission ever carried
C8_Witness ==
    /\ ~mounted
    /\ inflight["all"] # <<>>
    /\ inflight["latest"] # <<>>
    /\ \E d \in store :
          /\ d.id \notin Ids(allRecords) \cup Ids(latestRecords)
          /\ \A sub \in Subs : \A k \in 1..Len(inflight[sub]) :
                d.id \notin Ids(inflight[sub][k].docs)

\* C9: deleteEvaluationRecord called with the empty id resolves, calls deleteDoc
\* for nothing, and leaves the collection as it was
C9_EmptyIdIsNoOp ==
    (call.fn = "deleteEvaluationRecord" /\ call.id = "" /\ call.stage # "start")
    => /\ call.stage = "resolved"
       /\ deleteDocCalls = {}
       /\ pendingDeletes = {}
       /\ store = FnStore

\* C9: the call with the empty id has returned
C9_Witness ==
    call.fn = "deleteEvaluationRecord" /\ call.id = "" /\ call.stage = "resolved"

\* C10: when handleDelete's request for an id that is no longer in the collection
\* settles, deletingId is null again and no alert has been shown
C10_DeleteOfMissingIdIsSilent ==
    [][\A req \in pendingDeletes :
          (req.caller = "handleDelete"
           /\ req \notin pendingDeletes'
           /\ req.id \notin {d.id : d \in store})
          => (deletingId' = "" /\ alerts' = alerts)]_vars

\* the ids of a sequence of documents or records, in order
IdSeq(seq) == [i \in 1..Len(seq) |-> seq[i].id]

\* C11: a snapshot callback replaces the view of its subscription by the mapped
\* documents of the snapshot, in snapshot order; nothing of an earlier snapshot
\* stays unless the new snapshot holds it
C11_SnapshotReplacesView ==
    [][\A sub \in Subs :
          DeliversSnapshot(sub)
          => LET mapped == MapDocs(Head(inflight[sub]).docs, now)
             IN  /\ ~mapped.threw
                 /\ ViewOf(sub, latestRecords', allRecords') = mapped.records
                 /\ Ids(ViewOf(sub, latestRecords', allRecords'))
                    \subseteq Ids(Head(inflight[sub]).docs)]_vars

\* C12: latestRecords never holds more than LATEST_EVALUATION_LIMIT records, and
\* after an emission of the latest subscription it is the documents of that
\* emission, most recent first
C12_LatestAreMostRecentTen ==
    [][/\ Len(latestRecords') <= LATEST_EVALUATION_LIMIT
       /\ DeliversSnapshot("latest")
          => LET docs == Head(inflight["latest"]).docs
             IN  /\ IdSeq(latestRecords') = IdSeq(docs)
                 /\ \A i \in 1..(Len(docs) - 1) :
                       CreatedAtKey(docs[i]) >= CreatedAtKey(docs[i + 1])]_vars

\* C13: an error callback sets error to the one message, and error, once set,
\* is never cleared or changed by a later callback of either subscription
C13_ErrorIsTerminal ==
    [][/\ error' \in {"", ErrorMessage}
       /\ error # "" => error' = error
       /\ \A sub \in Subs :
             (inflight[sub] # <<>> /\ Head(inflight[sub]).kind = "error"
              /\ inflight'[sub] = Tail(inflight[sub]))
             => error' = ErrorMessage]_vars

\* C13: the latest subscription has failed and the all subscription, still
\* listening, has a snapshot with a document to deliver
C13_Witness ==
    /\ error # ""
    /\ subStatus["latest"] = "failed" /\ inflight["latest"] = <<>>
    /\ subStatus["all"] = "active"
    /\ inflight["all"] # <<>>
    /\ Head(inflight["all"]).kind = "snapshot"
    /\ Head(inflight["all"]).docs # <<>>

\* C20: monthlySummary is summarizeMonthly of the current allRecords
C20_SummaryIsFunctionOfAllRecords ==
    monthlySummary = summarizeMonthly(allRecords, now, tz).out

\* C20: two documents were written, one of them has been deleted since, and
\* the view and the summaries show the one that is left
C20_Witness ==
    /\ nextId = 2
    /\ Cardinality(store) = 1
    /\ Ids(allRecords) = {d.id : d \in store}
    /\ monthlySummary # <<>>

\* C17: percentage is 0 whenever total is 0; for total > 0 it is the tenth
\* nearest to value / total * 100; percentage(0, 0) = 0, percentage(5, 10) = 50
C17_PercentageIsGuardedAndRounded ==
    (call.fn = "percentage" /\ call.stage = "returned")
    => LET value == call.args[1]
           total == call.args[2]
           d == 2 * total * call.out.tenths - 2000 * value
       IN  /\ total = 0 => call.out.tenths = 0
           /\ total > 0 => (d <= total /\ -d <= total)
           /\ (value = 0 /\ total = 0) => call.out.tenths = 0
           /\ (value = 5 /\ total = 10) => call.out.tenths = 500

\* C17: percentage has returned for a total of 0 and a value that is not 0
C17_Witness ==
    /\ call.fn = "percentage" /\ call.stage = "returned"
    /\ call.args[2] = 0 /\ call.args[1] > 0

\* the number of records whose field has one of the values
CountOf(records, field, values) ==
    Cardinality({i \in 1..Len(records) : records[i][field] \in values})

\* C18: the status counts of a field have total = number of records and
\* done + notDone + na = total; done and notDone count the records whose field
\* is done / not_done, na counts all the others
C18_StatusCountsPartitionRecords ==
    (call.fn = "summarizeStatusByField" /\ call.stage = "returned")
    => LET records == call.records
           field == call.args[1]
           counts == call.out
       IN  /\ counts.total = Len(records)
           /\ counts.done + counts.notDone + counts.na = counts.total
           /\ counts.done = CountOf(records, field, {"done"})
           /\ counts.notDone = CountOf(records, field, {"not_done"})
           /\ counts.na = Len(records) - CountOf(records, field, {"done", "not_done"})

\* C18: counts returned for two records, one of them with a status that is no
\* CareStatus in the counted field
C18_Witness ==
    /\ call.fn = "summarizeStatusByField" /\ call.stage = "returned"
    /\ Len(call.records) = 2
    /\ \E i \in 1..2 : call.records[i][call.args[1]] \notin CareStatuses

\* the counts of a summary, without its label
CountsOf(summary) ==
    [monthKey |-> summary.monthKey, total |-> summary.total, done |-> summary.done,
     notDone |-> summary.notDone, na |-> summary.na]

\* C19: summarizeMonthly of the three example records returns 2025-01 with
\* total 2, done 1, notDone 1, na 2 and then 2025-02 with total 1, done 2,
\* notDone 0, na 0
C19_ExampleGivesTwoBuckets ==
    (call.fn = "summarizeMonthly" /\ call.records = ExampleRecords
     /\ call.stage = "summarized")
    => /\ ~call.threw
       /\ Len(call.out) = 2
       /\ CountsOf(call.out[1])
          = [monthKey |-> <<"2", "0", "2", "5", "-", "0", "1">>,
             total |-> 2, done |-> 1, notDone |-> 1, na |-> 2]
       /\ CountsOf(call.out[2])
          = [monthKey |-> <<"2", "0", "2", "5", "-", "0", "2">>,
             total |-> 1, done |-> 2, notDone |-> 0, na |-> 0]

\* C14: the error effect has called showToast with the error message once when
\* error is set and not at all before, however many subscriptions have failed;
\* a subscription that has failed is never listening again
C14_ErrorToastShownOnce ==
    /\ [](showToastCalls[ErrorMessage] = IF error # "" THEN 1 ELSE 0)
    /\ [][\A sub \in Subs : subStatus[sub] = "failed" => subStatus'[sub] = "failed"]_vars

\* C14: both subscriptions have failed and both error callbacks have run
C14_Witness ==
    /\ \A sub \in Subs : subStatus[sub] = "failed" /\ inflight[sub] = <<>>
    /\ error # ""
    /\ ~Loading

\* no assessor is selected (select mode), or the name typed is empty or blank
EmptyAssessor(f) ==
    \/ f.mode = "select" /\ f.selectedAssessor = <<>>
    \/ f.mode = "custom" /\ \A i \in 1..Len(f.customAssessor) : f.customAssessor[i] = " "

\* C15: while the form has no assessor, no step calls addDoc or starts a save or
\* changes the collection, and the only change a submission makes to the form
\* is to set the validation message
C15_EmptyAssessorIsRejected ==
    [][(EmptyAssessor(form) /\ ~isSubmitting)
       => /\ addDocCalls' = addDocCalls
          /\ pendingSaves' = pendingSaves
          /\ isSubmitting' = FALSE
          /\ store' = store
          /\ form'.error # form.error
             => form' = [form EXCEPT !.error = ValidationMessage]]_vars

\* C15: a form with a blank name and the other fields filled in was submitted
C15_Witness ==
    /\ form.error = ValidationMessage
    /\ form.mode = "custom" /\ form.customAssessor = <<" ">>
    /\ form.notes # <<>> /\ form.boneProtection = "not_done"
    /\ addDocCalls = 0

\* C16: when a write fails, handleSave has called addDoc once for it and does
\* not call it again, the retry-later toast is shown, isSubmitting is false,
\* and allRecords, latestRecords and monthlySummary are as they were
C16_FailedSaveIsReportedOnce ==
    [][\A req \in pendingSaves :
          (req \notin pendingSaves' /\ nextId' = nextId)
          => /\ addDocCalls' = addDocCalls
             /\ pendingSaves' = {}
             /\ toast' = [message |-> SaveFailedMessage, variant |-> "error"]
             /\ showToastCalls'[SaveFailedMessage] = showToastCalls[SaveFailedMessage] + 1
             /\ isSubmitting /\ ~isSubmitting'
             /\ allRecords' = allRecords
             /\ latestRecords' = latestRecords
             /\ monthlySummary' = monthlySummary]_vars

\* C16: a write has failed while records of an earlier, successful one are shown
C16_Witness ==
    /\ showToastCalls[SaveFailedMessage] = 1
    /\ toast.message = SaveFailedMessage
    /\ ~isSubmitting
    /\ allRecords # <<>> /\ latestRecords # <<>>

\* C21: every record mapDocToRecord returns has an assessor that is not empty
\* and has no blank at either end: it is the label when the stored assessor is
\* missing, no string, empty or blank, and the stored string trimmed otherwise.
C21_AssessorIsTrimmedOrLabel ==
    (call.fn = "mapDocToRecord" /\ call.stage = "mapped" /\ ~call.threw) =>
        /\ Len(call.records) = Len(call.docs)
        /\ \A i \in 1..Len(call.docs) :
              LET stored == call.docs[i].assessor
                  assessor == call.records[i].assessor
              IN  /\ assessor # <<>>
                  /\ Head(assessor) # " " /\ assessor[Len(assessor)] # " "
                  /\ IF stored.type # "string" \/ \A k \in 1..Len(stored.chars) : stored.chars[k] = " "
                     THEN assessor = UnsetLabel
                     ELSE assessor = trim(stored.chars)

\* a mapped document with a padded assessor, and one without an assessor
C21_Witness ==
    /\ call.fn = "mapDocToRecord" /\ call.stage = "mapped" /\ ~call.threw
    /\ Len(call.docs) = 2
    /\ call.docs[1].assessor = StringValue(<<" ", "A", "b", "e", " ">>)
    /\ call.records[1].assessor = <<"A", "b", "e">>
    /\ call.docs[2].assessor = NumberValue
    /\ call.records[2].assessor = UnsetLabel

FirstOfAll == SubSeq(allRecords, 1, Min(LATEST_EVALUATION_LIMIT, Len(allRecords)))

\* C22: when both subscriptions stay active, then, once the collection has
\* stopped changing, latestRecords is from some point on the first
\* min(10, |allRecords|) elements of allRecords.
C22_ViewsConverge ==
    [](\A sub \in Subs : subStatus[sub] = "active") => <>[](latestRecords = FirstOfAll)

\* C24: loading starts true; a subscription's loading flag becomes false in the
\* step in which it delivers a snapshot or an error, and changes in no other step.
C24_LoadingUntilFirstDelivery ==
    /\ (latestLoading = TRUE /\ allLoading = TRUE /\ Loading = TRUE)
    /\ [][ /\ (inflight["latest"] # <<>> /\ inflight'["latest"] = Tail(inflight["latest"]))
               => ~latestLoading'
           /\ ~(inflight["latest"] # <<>> /\ inflight'["latest"] = Tail(inflight["latest"]))
               => latestLoading' = latestLoading
           /\ (inflight["all"] # <<>> /\ inflight'["all"] = Tail(inflight["all"]))
               => ~allLoading'
           /\ ~(inflight["all"] # <<>> /\ inflight'["all"] = Tail(inflight["all"]))
               => allLoading' = allLoading
           /\ Loading' = (latestLoading' \/ allLoading') ]_vars

\* the records of a call that summarizeMonthly groups under monthKey
RecordsOfMonth(monthKey) ==
    {i \in 1..Len(call.records) :
        FormatMonthKey(SummaryDate(call.records[i], now), tz) = monthKey}

RECURSIVE SumOfTotals(_)
SumOfTotals(summaries) ==
    IF summaries = <<>> THEN 0 ELSE Head(summaries).total + SumOfTotals(Tail(summaries))

\* C25: summarizeMonthly partitions its input: it returns, every record is
\* counted in exactly one bucket (each bucket's total is the number of records
\* of its month, and no two buckets share a month), every bucket has
\* total >= 1, and the totals sum to the number of records, so that an empty
\* input gives an empty output.
C25_SummaryPartitionsRecords ==
    (call.fn = "summarizeMonthly" /\ call.stage = "summarized") =>
        /\ ~call.threw
        /\ \A k \in 1..Len(call.out) :
              /\ call.out[k].total >= 1
              /\ call.out[k].total = Cardinality(RecordsOfMonth(call.out[k].monthKey))
        /\ \A j, k \in 1..Len(call.out) :
              call.out[j].monthKey = call.out[k].monthKey => j = k
        /\ \A i \in 1..Len(call.records) :
              \E k \in 1..Len(call.out) : i \in RecordsOfMonth(call.out[k].monthKey)
        /\ SumOfTotals(call.out) = Len(call.records)
        /\ (call.records = <<>> => call.out = <<>>)

MonthKeys(summaries) == {summaries[k].monthKey : k \in 1..Len(summaries)}

\* C26: once the Dashboard's effects have run, the active month is the empty
\* string only when monthlySummary is empty and otherwise a monthKey of
\* monthlySummary (in both Dashboards): the selected month is never one that
\* monthlySummary lacks, and without a selected month the active month is the
\* most recent one.
C26_ActiveMonthIsPresent ==
    LET active == activeMonth(selectedMonth, monthOptions(monthlySummary))
    IN  /\ active = activeMonthOfSummary(selectedMonth, monthlySummary)
        /\ selectedMonth \in MonthKeys(monthlySummary) \cup {<<>>}
        /\ IF monthlySummary = <<>>
           THEN active = <<>>
           ELSE /\ active \in MonthKeys(monthlySummary)
                /\ selectedMonth = <<>> =>
                       \A key \in MonthKeys(monthlySummary) : localeCompare(key, active) <= 0

\* an earlier month is selected while a later one has records
C26_Witness ==
    /\ Len(monthlySummary) >= 2
    /\ selectedMonth = monthlySummary[1].monthKey
    /\ activeMonth(selectedMonth, monthOptions(monthlySummary)) = selectedMonth
    /\ fallbackMonth(monthOptions(monthlySummary)) # selectedMonth

\* C27: at most one toast timer is pending, and it is the timer of the toast
\* shown last: showToast leaves no earlier timer pending, a toast is cleared
\* only by its own timer, and every toast shown is eventually cleared unless
\* the component unmounts first.
C27_SingleToastTimer ==
    /\ [](Cardinality(timers) <= 1 /\ timers \subseteq {toastTimer})
    /\ [][(toast # NoToast /\ toast' = NoToast)
            => (toastTimer \in timers /\ toastTimer \notin timers')]_vars
    /\ ((toast # NoToast) ~> (toast = NoToast \/ ~mounted))

\* a second toast is shown while the timer of the first is pending
C27_Witness ==
    /\ mounted
    /\ toast # NoToast
    /\ toastTimer >= 2
    /\ timers = {toastTimer}

\* the fields handleSubmit resets are at their defaults
FieldsAreReset(f) ==
    /\ f.notes = <<>>
    /\ f.boneProtection = "done" /\ f.incontinenceCare = "done"
    /\ f.heightCm = <<>> /\ f.weightKg = <<>>
    /\ f.customAssessor = <<>>

\* C28: when onSave settles, after a write that succeeded or one that failed,
\* notes, both status fields, height, weight and the custom assessor are at
\* their defaults, and an assessor entered in custom mode is in the stored list.
C28_FormIsResetAfterSave ==
    [][\A req \in pendingSaves :
          (mounted /\ req \notin pendingSaves')
          => /\ FieldsAreReset(form')
             /\ req.mode = "custom" =>
                   includes(form'.storedAssessors, req.payload.assessor)]_vars

\* a write of a custom entry with height and weight has failed: nothing is in
\* the collection, the fields are reset and the assessor is in the list
C28_Witness ==
    /\ showToastCalls[SaveFailedMessage] = 1 /\ addDocCalls = 1
    /\ pendingSaves = {} /\ store = {}
    /\ toast.message = SaveFailedMessage
    /\ FieldsAreReset(form)
    /\ form.storedAssessors = <<Sato, Abe>>
    /\ form.selectedAssessor = Abe

\* a list of non-empty trimmed strings without duplicates
Normalized(list) ==
    \A i \in 1..Len(list) :
        /\ list[i] # <<>>
        /\ trim(list[i]) = list[i]
        /\ \A j \in 1..Len(list) : i # j => list[i] # list[j]

\* the stored list is normalized and, when the latest setItem succeeded, the
\* item holds it
StoredListIsSound ==
    /\ Normalized(form.storedAssessors)
    /\ localStorage.lastSetItem = "ok"
          => localStorage.assessors = JSONStringify(form.storedAssessors)

\* C29: whatever assessors are added by custom entries and deleted, the stored
\* list holds only non-empty trimmed strings without duplicates; an addition
\* goes to the end of the list and a deletion keeps the order of the others
\* (the list is otherwise what is read from the item or taken from the
\* records); and when the write to storage succeeds the item under
\* 'evaluationForm.assessors' equals the list in memory.
C29_StoredAssessorsStayNormalized ==
    /\ StoredListIsSound
    /\ [][/\ StoredListIsSound'
          /\ LET before == form.storedAssessors
                 after == form'.storedAssessors
             IN  \/ after = before
                 \/ \E req \in pendingSaves \ pendingSaves' :
                       /\ ~includes(before, req.payload.assessor)
                       /\ after = Append(before, req.payload.assessor)
                 \/ \E i \in 1..Len(before) : after = Without(before, before[i])
                 \/ after = loadStoredAssessors(localStorage).list
                 \/ after = form'.assessorOptions]_vars

\* an entry of the assessor Abe has been saved, every stored name has been
\* deleted since, and the write of the empty list succeeded
C29_Witness ==
    /\ pendingSaves = {}
    /\ \E doc \in store : doc.assessor = StringValue(Abe)
    /\ form.storedAssessors = <<>>
    /\ localStorage.lastSetItem = "ok"
    /\ localStorage.assessors = JSONStringify(<<>>)

\* the tabs are rendered only while the item 'auth' reads 'true'
GateHolds == Rendered = "tabs" => localStorage.auth = TrueItem

\* C30: in every state the form, dashboard and guidelines are rendered only
\* while the item 'auth' reads 'true'; LoginGate writes the item only when an
\* access key is configured and the trimmed password equals it; a submit with
\* a wrong password or without a key leaves the item as it is and sets an
\* error message.
C30_AccessGateHolds ==
    /\ GateHolds
    /\ [][/\ GateHolds'
          /\ (/\ localStorage'.auth # localStorage.auth
              /\ gate'.storageEvents = gate.storageEvents)
             => (/\ gate'.submits # gate.submits
                 /\ gate.accessKey # <<>>
                 /\ trim(gate.password) = gate.accessKey
                 /\ localStorage'.auth = TrueItem)
          /\ (/\ gate'.submits # gate.submits
              /\ (gate.accessKey = <<>> \/ trim(gate.password) # gate.accessKey))
             => (/\ localStorage'.auth = localStorage.auth
                 /\ gate'.error # "")]_vars

\* after a submit that was turned down, the password typed with blanks around
\* it was accepted: the item reads 'true' and the tabs are rendered
C30_Witness ==
    /\ gate.submits = 2
    /\ gate.accessKey = Secret
    /\ Rendered = "tabs"
    /\ localStorage.auth = TrueItem
    /\ localStorage.lastSetItem = "ok"
    /\ gate.storageEvents = 0
    /\ gate.error = "" /\ gate.password = <<>>

====
